---- MODULE Spec2Model ----
(***************************************************************************)
(* css-blocks: BlockCompiler.compile and the ConflictResolver it drives.   *)
(*                                                                         *)
(* A stylesheet root is a sequence of nodes (rules, at-rules, comments).   *)
(* A rule holds a list of parsed selectors and a list of declarations.     *)
(* A parsed selector is a non-empty sequence of compound selectors; each   *)
(* compound carries the combinator that links it to the next one ("" on    *)
(* the key selector) and the key carries the pseudo-element ("" if none).  *)
(* A selector node is <<block, name>>: block is "" in source syntax and    *)
(* the owning block's name once the selector has been rewritten.           *)
(* A declaration value is either concrete (t = "v") or a resolve() /       *)
(* resolve-inherited() call (t = "r") naming a reference <<block-ref,      *)
(* object>>.                                                               *)
(***************************************************************************)
EXTENDS Integers, Sequences, FiniteSets, TLC

VARIABLES
  in,      \* the inputs of compile: block graph, stylesheets of the other blocks, options
  root,    \* the postcss root of the compiled block, mutated in place
  pc,      \* position of compile: which pass runs next, "done" or "thrown"
  passes,  \* the passes that have started, in order
  walk,    \* position of resolve's root.walkDecls: [i |-> node index, j |-> declaration index]
  err,     \* the error compile threw, "" if none
  ret,     \* what compile returned: "none" or "root"
  last,    \* what the latest visit of a resolve declaration did
  merge,   \* one call of mergeKeySelectors: its two selectors and what it gave
  fold,    \* the classifications updateConflict has accumulated in one call
  factory, \* a BlockFactory: its maps, the loads in flight and the callers
  block,   \* a Block: its name, its classes and the calls made on it
  style,   \* styles with their base pointers, their resolveStyles caches and the sets handed out
  exports, \* one run of exportBlocks over the @export at-rules of a block
  deps,    \* one call of transitiveBlockDependencies: the reference graph and the call stack
  analysis \* a TemplateAnalysis: the open element, the recorded elements, the calls made

vars == <<in, root, pc, passes, walk, err, ret, last, merge, fold, factory, block,
         style, exports, deps, analysis>>

\* each part of the program is run on its own; the state of the parts that do
\* not run stays Idle
Idle == [pc |-> "idle"]

compileVars == <<in, root, pc, passes, walk, err, ret, last>>
modelVars   == <<style, exports, deps, analysis>>
notCompile  == <<merge, fold, factory, block, modelVars>>

ModelIdle ==
  style = Idle /\ exports = Idle /\ deps = Idle /\ analysis = Idle

(***************************************************************************)
(* Bounds                                                                  *)
(***************************************************************************)
\* BlockFactory: loads started, getBlock calls made, reset() calls made, and
\* direct getUniqueBlockName calls made
MaxLoads == 3
MaxCalls == 3
MaxResets == 1
MaxNameCalls == 3
MaxObjects == 2
\* Style: the styles of one base chain, the resolveStyles calls made on them,
\* the changes callers make to the sets they got and the setBase calls
MaxStyles == 2
MaxStyleCalls == 2
MaxSetChanges == 1
MaxSetBase == 1
\* exportBlocks: the @export at-rules of one block
MaxExportRules == 2
\* transitiveBlockDependencies: the blocks of the reference graph and the
\* calls the engine's stack holds
MaxDepBlocks == 2
MaxStack == 4
\* TemplateAnalysis: the calls made on one analysis and the runs of the loop
\* of one areCorrelated call
MaxAnalysisCalls == 5
MaxIterations == 3

\* the longest run of updateConflict calls inside one resolveConflictWith call
MaxUpdates == 4

MaxDecls == 3

None == "none"

(***************************************************************************)
(* ConflictType and updateConflict                                         *)
(***************************************************************************)
ConflictType == {"conflict", "noconflict", "samevalues"}

\* an update in which samevalues is never raised to conflict
updateConflictSticky(t1, t2) == IF t1 = "noconflict" THEN t2 ELSE t1

updateConflict(t1, t2) ==
  CASE t1 = "conflict"   -> "conflict"
    [] t1 = "noconflict" -> t2
    [] t1 = "samevalues" -> IF t2 = "conflict" THEN "conflict" ELSE "samevalues"

SIBLING_COMBINATORS       == {"+", "~"}
HIERARCHICAL_COMBINATORS  == {" ", ">"}
\* a set of contiguous combinators that leaves the adjacent sibling out
CONTIGUOUS_CHILD_ONLY == {">"}

CONTIGUOUS_COMBINATORS    == {"+", ">"}
NONCONTIGUOUS_COMBINATORS == {"~", " "}

(***************************************************************************)
(* Declarations and values                                                 *)
(***************************************************************************)
Val(v)          == [t |-> "v", v |-> v, inh |-> FALSE, ref |-> <<"", "">>]
Res(inh, ref)   == [t |-> "r", v |-> "", inh |-> inh, ref |-> ref]
Decl(p, value)  == [prop |-> p, value |-> value, inj |-> <<>>]

\* a declaration resolveInheritance wrote; inj remembers for which
\* pseudo-element bucket ("" for the element itself), the tree does not hold it
Injected(p, value, pe) == [prop |-> p, value |-> value, inj |-> <<pe>>]

\* decl.value.match(RESOLVE_RE)
RESOLVE_RE(value) == value.t = "r"

(***************************************************************************)
(* Selectors                                                               *)
(***************************************************************************)
Seg(nodes, comb, pe) == [nodes |-> nodes, comb |-> comb, pe |-> pe]
Cls(n) == <<"", n>>

\* the key selector of a parsed selector
Key(sel) == sel[Len(sel)]

\* splitSelector: [context, combinator, key]; a missing context is <<>>
splitSelector(s) ==
  IF Len(s) = 1
    THEN [context |-> <<>>, combinator |-> "", key |-> <<s[1]>>]
    ELSE [context |-> [k \in 1..(Len(s) - 1) |->
                         IF k = Len(s) - 1 THEN [s[k] EXCEPT !.comb = ""] ELSE s[k]],
          combinator |-> s[Len(s) - 1].comb,
          key |-> <<s[Len(s)]>>]

\* CompoundSelector.mergeNodes: the nodes of b's head are added to a's head
mergeNodes(a, b) ==
  [a EXCEPT ![1] = [@ EXCEPT !.nodes = @ \o b[1].nodes,
                             !.pe = IF @ # "" THEN @ ELSE b[1].pe]]

\* CompoundSelector.append(combinator, selector)
append(a, comb, b) ==
  [k \in 1..Len(a) |-> IF k = Len(a) THEN [a[k] EXCEPT !.comb = comb] ELSE a[k]] \o b

\* Block.rewriteSelector: a node that names an object of the block becomes
\* that object's output class; any other node is kept
Objects == {"root", "foo", "bar"}

rewriteSelectorNodes(blk, nodes) ==
  [k \in 1..Len(nodes) |->
     IF nodes[k][1] = "" /\ nodes[k][2] \in Objects THEN <<blk, nodes[k][2]>> ELSE nodes[k]]

rewriteSelector(blk, sel) ==
  [k \in 1..Len(sel) |-> [sel[k] EXCEPT !.nodes = rewriteSelectorNodes(blk, @)]]

\* the combinator cases of mergeKeySelectors, once both selectors are split
mergeContexts(context1, combinator1, context2, combinator2, mergedKey) ==
  IF context1 # <<>> /\ context2 # <<>> /\ combinator1 # "" /\ combinator2 # ""
    THEN
      IF combinator1 \in CONTIGUOUS_COMBINATORS /\ combinator1 = combinator2
        THEN [err |-> "", sels |->
               <<append(mergeNodes(context1, context2), combinator1, mergedKey)>>]
      ELSE IF combinator1 \in SIBLING_COMBINATORS /\ combinator2 \in HIERARCHICAL_COMBINATORS
        THEN [err |-> "", sels |->
               <<append(append(context2, combinator2, context1), combinator1, mergedKey)>>]
      ELSE IF combinator1 \in HIERARCHICAL_COMBINATORS /\ combinator2 \in SIBLING_COMBINATORS
        THEN [err |-> "", sels |->
               <<append(append(context1, combinator1, context2), combinator2, mergedKey)>>]
      ELSE IF combinator1 \in NONCONTIGUOUS_COMBINATORS /\ combinator2 \in NONCONTIGUOUS_COMBINATORS
        THEN [err |-> "", sels |->
               <<append(mergeNodes(context1, context2), combinator2, mergedKey),
                 append(append(context1, combinator1, context2), combinator2, mergedKey),
                 append(append(context2, combinator1, context1), combinator2, mergedKey)>>]
      ELSE IF /\ combinator1 \in NONCONTIGUOUS_COMBINATORS
              /\ combinator2 \in CONTIGUOUS_COMBINATORS
              /\ \/ combinator1 \in HIERARCHICAL_COMBINATORS /\ combinator2 \in HIERARCHICAL_COMBINATORS
                 \/ combinator1 \in SIBLING_COMBINATORS /\ combinator2 \in SIBLING_COMBINATORS
        THEN [err |-> "", sels |->
               <<append(mergeNodes(context1, context2), combinator2, mergedKey),
                 append(append(context1, combinator1, context2), combinator2, mergedKey)>>]
      ELSE IF /\ combinator2 \in NONCONTIGUOUS_COMBINATORS
              /\ combinator1 \in CONTIGUOUS_COMBINATORS
              /\ \/ combinator2 \in HIERARCHICAL_COMBINATORS /\ combinator1 \in HIERARCHICAL_COMBINATORS
                 \/ combinator2 \in SIBLING_COMBINATORS /\ combinator1 \in SIBLING_COMBINATORS
        THEN [err |-> "", sels |->
               <<append(mergeNodes(context1, context2), combinator1, mergedKey),
                 append(append(context2, combinator2, context1), combinator1, mergedKey)>>]
      ELSE [err |-> "mergecombinators", sels |-> <<>>]
  ELSE IF context1 # <<>> /\ combinator1 # ""
    THEN [err |-> "", sels |-> <<append(context1, combinator1, mergedKey)>>]
  ELSE IF context2 # <<>> /\ combinator2 # ""
    THEN [err |-> "", sels |-> <<append(context2, combinator2, mergedKey)>>]
  ELSE [err |-> "", sels |-> <<mergedKey>>]

\* a merge that takes the two split selectors in the other order
mergeSplitSwapped(p1, p2) ==
  mergeContexts(p2.context, p2.combinator, p1.context, p1.combinator,
                mergeNodes(p1.key, p2.key))

mergeSplit(p1, p2) ==
  mergeContexts(p1.context, p1.combinator, p2.context, p2.combinator,
                mergeNodes(p1.key, p2.key))

\* whether mergeKeySelectors refuses the pair: both have more than one combinator
tooManyCombinators(s1, s2) == Len(s1) > 2 /\ Len(s2) > 2

\* mergeKeySelectors: [err, sels]; err is "" unless the merge throws
mergeKeySelectors(s1, s2) ==
  IF tooManyCombinators(s1, s2)
    THEN [err |-> "multicombinator", sels |-> <<>>]
    ELSE mergeSplit(splitSelector(s1), splitSelector(s2))

(***************************************************************************)
(* The block graph                                                         *)
(*   B  the compiled block; B2 a second instance of the same file          *)
(*   A  the block B may extend, G the block A may extend                   *)
(*   O  a referenced block, P the block O may extend                       *)
(***************************************************************************)
Blocks == {"B", "B2", "A", "G", "O", "P"}

identifier(b) == IF b \in {"B", "B2"} THEN "b.block.css" ELSE b

\* the block references registered in B, by local name
blockReferences == [a |-> "A", g |-> "G", o |-> "O", dup |-> "B2"]

Undefined == [blk |-> None, name |-> None]
Obj(b, n) == [blk |-> b, name |-> n]

\* Block.equal
equal(b, other) == other # None /\ identifier(b) = identifier(other)

\* an ancestor test that looks at the direct base only
isAncestorDirect(bases, b, base) == base # None /\ equal(b, base)

\* Block.isAncestor: b.isAncestor(other), over the base map
RECURSIVE isAncestorFrom(_, _, _)
isAncestorFrom(bases, b, base) ==
  IF base = None THEN FALSE
  ELSE IF equal(b, base) THEN TRUE
  ELSE isAncestorFrom(bases, b, bases[base])

isAncestor(bases, b, other) ==
  isAncestorFrom(bases, b, IF other = None THEN None ELSE bases[other])

\* Block.lookup on B: local scope first, then the block references
lookup(ref) ==
  LET blk == IF ref[1] = "" THEN "B"
             ELSE IF ref[1] \in DOMAIN blockReferences THEN blockReferences[ref[1]]
             ELSE None
  IN IF blk = None \/ ref[2] \notin Objects THEN Undefined ELSE Obj(blk, ref[2])

\* BlockObject.base: the object of the same name in the block's base
base(bases, o) ==
  IF bases[o.blk] = None THEN Undefined ELSE Obj(bases[o.blk], o.name)

\* BlockObject.asSource and the reference resolveInheritance writes
baseReference(baseName, baseObj) == <<baseName, baseObj.name>>

\* BlockParser.getBlockNode + Block.nodeAndTypeToBlockObject on a key selector
RECURSIVE blockNodeFrom(_, _)
blockNodeFrom(nodes, k) ==
  IF k > Len(nodes) THEN None
  ELSE IF nodes[k][2] \in Objects THEN nodes[k][2]
  ELSE blockNodeFrom(nodes, k + 1)

keyObject(sel) == blockNodeFrom(Key(sel).nodes, 1)

(***************************************************************************)
(* Stylesheet nodes                                                        *)
(***************************************************************************)
Rule(sels, decls) == [type |-> "rule", name |-> "", text |-> "", sels |-> sels, decls |-> decls]
AtRule(name, text) == [type |-> "atrule", name |-> name, text |-> text, sels |-> <<>>, decls |-> <<>>]
Comment(text) == [type |-> "comment", name |-> "", text |-> text, sels |-> <<>>, decls |-> <<>>]

Reverse(s) == [k \in 1..Len(s) |-> s[Len(s) + 1 - k]]

RECURSIVE Flatten(_)
Flatten(ss) == IF ss = <<>> THEN <<>> ELSE Head(ss) \o Flatten(Tail(ss))

\* QueryKeySelector.execute: the selectors of a stylesheet whose key selector
\* is the object, in source order, each with the rule it stands in
QueryKeySelector(sheet, name) ==
  Flatten([ri \in 1..Len(sheet) |->
    IF sheet[ri].type # "rule" THEN <<>>
    ELSE LET sels == sheet[ri].sels
             hit(si) == keyObject(sels[si]) = name
             idx == SelectSeq([si \in 1..Len(sels) |-> si], hit)
         IN [k \in 1..Len(idx) |->
               [sel |-> sels[idx[k]], rule |-> ri, pe |-> Key(sels[idx[k]]).pe]]])

\* the properties the rulesets of an object declare, per pseudo-element
rulesetProps(sheet, name, pe) ==
  UNION {IF /\ sheet[ri].type = "rule"
            /\ \E si \in 1..Len(sheet[ri].sels) :
                 /\ keyObject(sheet[ri].sels[si]) = name
                 /\ Key(sheet[ri].sels[si]).pe = pe
           THEN {sheet[ri].decls[k].prop : k \in 1..Len(sheet[ri].decls)}
           ELSE {} : ri \in 1..Len(sheet)}

\* conflictDetection.detectConflicts(obj, base).getConflictSet(pe): the
\* properties both objects declare in that pseudo-element bucket, in a fixed order
PropOrder == <<"color", "width">>

detectConflicts(objSheet, obj, baseSheet, baseObj, pe) ==
  SelectSeq(PropOrder,
            LAMBDA p : /\ p \in rulesetProps(objSheet, obj.name, pe)
                       /\ p \in rulesetProps(baseSheet, baseObj.name, pe))

(***************************************************************************)
(* ConflictResolver.resolveInheritance                                     *)
(***************************************************************************)
\* conflictingProps.forEach without the handled set of the rule
RECURSIVE injectPropsUnhandled(_, _, _, _, _)
injectPropsUnhandled(acc, props, k, pe, ref) ==
  IF k > Len(props) THEN acc
  ELSE IF props[k] \in {acc.decls[d].prop : d \in 1..Len(acc.decls)}
    THEN injectPropsUnhandled(
           [acc EXCEPT !.decls = <<Injected(props[k], Res(TRUE, ref), pe)>> \o @],
           props, k + 1, pe, ref)
    ELSE injectPropsUnhandled(acc, props, k + 1, pe, ref)

\* conflictingProps.forEach: prepend a resolve-inherited for every conflicting
\* property the rule declares and that is not handled yet
RECURSIVE injectProps(_, _, _, _, _)
injectProps(acc, props, k, pe, ref) ==
  IF k > Len(props) THEN acc
  ELSE LET thisProp == props[k]
           ruleProps == {acc.decls[d].prop : d \in 1..Len(acc.decls)}
       IN IF thisProp \in ruleProps /\ <<pe, thisProp>> \notin acc.handledConflicts
            THEN injectProps(
                   [acc EXCEPT !.handledConflicts = @ \cup {<<pe, thisProp>>},
                               !.decls = <<Injected(thisProp, Res(TRUE, ref), pe)>> \o @],
                   props, k + 1, pe, ref)
            ELSE injectProps(acc, props, k + 1, pe, ref)

\* parsedSelectors.forEach of one rule
RECURSIVE inheritSelectors(_, _, _, _, _, _)
inheritSelectors(acc, sels, k, src, input, baseName) ==
  IF k > Len(sels) THEN acc
  ELSE
    LET name == keyObject(sels[k])
        pe   == Key(sels[k]).pe
        obj  == Obj("B", name)
        b    == base(input.base, obj)
        seen == [acc EXCEPT !.handledObjects = @ \cup {<<pe, name>>}]
        conflictingProps == detectConflicts(src, obj, input.sheet[b.blk], b, pe)
    IN IF name = None THEN inheritSelectors(acc, sels, k + 1, src, input, baseName)
       ELSE IF <<pe, name>> \in acc.handledObjects
         THEN inheritSelectors(acc, sels, k + 1, src, input, baseName)
       ELSE IF b = Undefined THEN inheritSelectors(seen, sels, k + 1, src, input, baseName)
       ELSE IF Len(conflictingProps) = 0
         THEN inheritSelectors(seen, sels, k + 1, src, input, baseName)
       ELSE inheritSelectors(
              injectProps(seen, conflictingProps, 1, pe, baseReference(baseName, b)),
              sels, k + 1, src, input, baseName)

inheritRule(rule, input, baseName) ==
  [rule EXCEPT !.decls =
     inheritSelectors([handledConflicts |-> {}, handledObjects |-> {}, decls |-> rule.decls],
                      rule.sels, 1, input.src, input, baseName).decls]

\* the local name under which B registered its base
blockBaseName == "a"

resolveInheritance(r, input) ==
  IF input.base["B"] # None /\ blockBaseName # ""
    THEN [k \in 1..Len(r) |->
            IF r[k].type = "rule" THEN inheritRule(r[k], input, blockBaseName) ELSE r[k]]
    ELSE r

(***************************************************************************)
(* ConflictResolver.resolve: the visit of one declaration                  *)
(***************************************************************************)
\* the order test with the positions compared the other way round
mixedOrderFlipped(foundOtherValue, foundResolve) ==
  /\ foundOtherValue # 0
  /\ foundResolve # 0
  /\ foundOtherValue > foundResolve

\* a value met after the resolve while an earlier value stands before it
mixedOrder(foundOtherValue, foundResolve) ==
  /\ foundOtherValue # 0
  /\ foundResolve # 0
  /\ foundOtherValue < foundResolve

\* decl.parent.walkDecls(decl.prop, ...): positions are indexes into the rule,
\* 0 stands for null
RECURSIVE scanDecls(_, _, _, _)
scanDecls(acc, decls, decl, idx) ==
  IF idx > Len(decls) \/ acc.thrown THEN acc
  ELSE
    LET otherDecl == decls[idx]
    IN IF otherDecl.prop # decl.prop THEN scanDecls(acc, decls, decl, idx + 1)
       ELSE IF RESOLVE_RE(otherDecl.value)
         THEN IF otherDecl.value # decl.value
                THEN scanDecls(acc, decls, decl, idx + 1)
                ELSE scanDecls([acc EXCEPT !.foundResolve = idx,
                                           !.isOverride = (acc.foundOtherValue # 0)],
                               decls, decl, idx + 1)
       ELSE IF mixedOrder(acc.foundOtherValue, acc.foundResolve)
         THEN [acc EXCEPT !.thrown = TRUE]
       ELSE scanDecls([acc EXCEPT !.foundOtherValue = idx,
                                  !.otherDecls = Append(@, otherDecl)],
                      decls, decl, idx + 1)

scanRule(decls, decl) ==
  scanDecls([foundOtherValue |-> 0, foundResolve |-> 0, isOverride |-> FALSE,
             otherDecls |-> <<>>, thrown |-> FALSE], decls, decl, 1)

\* the concrete declarations of a property in a rule: s.rule.walkDecls(prop)
\* filtered by !value.match(RESOLVE_RE)
concreteDecls(decls, prop) ==
  SelectSeq(decls, LAMBDA d : d.prop = prop /\ ~RESOLVE_RE(d.value))

\* the same-values walk of resolveConflictWith: [sameValues, d]
RECURSIVE sameValuesWalk(_, _, _, _)
sameValuesWalk(overrideDecls, otherDecls, k, d) ==
  IF k > Len(overrideDecls) THEN [sameValues |-> TRUE, d |-> d]
  ELSE IF Len(otherDecls) = d \/ overrideDecls[k].value # otherDecls[d + 1].value
    THEN [sameValues |-> FALSE, d |-> d]
  ELSE sameValuesWalk(overrideDecls, otherDecls, k + 1, d + 1)

\* the rule resolveConflictWith builds for one matching selector of the target
newRuleDecls(isOverride, overrideDecls, otherDecls, prop) ==
  IF isOverride
    THEN [n \in 1..Len(overrideDecls) |-> Decl(prop, overrideDecls[n].value)]
    ELSE IF Len(overrideDecls) > 0
      THEN [n \in 1..Len(otherDecls) |-> Decl(prop, otherDecls[n].value)]
      ELSE <<>>

\* s is the selector of the target the rule is built for; the entry keeps the
\* rule and the selector of the target it came from
withRule(acc, found, newDecls, newSelStr, blk, s) ==
  [acc EXCEPT !.resolvedSelectors = @ \cup {newSelStr},
              !.foundConflict = found,
              !.inserted = IF Len(newDecls) > 0
                             THEN Append(@, [node |-> Rule(newSelStr, newDecls),
                                             blk |-> blk, rule |-> s.rule, sel |-> s.sel,
                                             cs |-> 0])
                             ELSE @]

\* the body of resultSels.reverse().forEach for one selector s of the target
\* and one selector of the current rule, given the merged selectors
mergeOne(acc, merged, overrideDecls, same, sc, prop, blk, s) ==
  IF merged.err # "" THEN [acc EXCEPT !.err = merged.err]
  ELSE IF merged.sels \in acc.resolvedSelectors THEN acc
  ELSE IF same.sameValues /\ Len(sc.otherDecls) = same.d
    THEN [acc EXCEPT !.resolvedSelectors = @ \cup {merged.sels},
                     !.foundConflict = updateConflict(@, "samevalues")]
  ELSE withRule(acc,
                IF Len(overrideDecls) > 0
                  THEN updateConflict(acc.foundConflict, "conflict")
                  ELSE acc.foundConflict,
                newRuleDecls(sc.isOverride, overrideDecls, sc.otherDecls, prop),
                merged.sels, blk, s)

mergeValues(acc, merged, overrideDecls, sc, prop, blk, s) ==
  mergeOne(acc, merged, overrideDecls, sameValuesWalk(overrideDecls, sc.otherDecls, 1, 0),
           sc, prop, blk, s)

\* resultSels.reverse().forEach of resolveConflictWith, for one selector cs of
\* the current rule. acc: [foundConflict, resolvedSelectors, inserted, err, reversed]
RECURSIVE mergeResults(_, _, _, _, _, _, _, _)
mergeResults(acc, resultSels, k, cs, other, sheet, sc, decl) ==
  IF k > Len(resultSels) \/ acc.err # "" THEN acc
  ELSE mergeResults(
         mergeValues(acc,
                     mergeKeySelectors(rewriteSelector(other.blk, resultSels[k].sel), cs),
                     concreteDecls(sheet[resultSels[k].rule].decls, decl.prop),
                     sc, decl.prop, other.blk, resultSels[k]),
         resultSels, k + 1, cs, other, sheet, sc, decl)

\* result.main and result.other[pe] are arrays that reverse() turns around in
\* place: acc.reversed holds the pseudo-elements ("" for main) whose array
\* currently stands reversed
flip(acc, pe) ==
  [acc EXCEPT !.reversed = IF pe \in @ THEN @ \ {pe} ELSE @ \cup {pe}]

resultSelsFor(acc, result, pe) ==
  IF pe \in acc.reversed
    THEN Reverse(SelectSeq(result, LAMBDA e : e.pe = pe))
    ELSE SelectSeq(result, LAMBDA e : e.pe = pe)

\* the body of curSel.forEach
eachResult(acc, resultSels, cs, other, sheet, sc, decl) ==
  IF Len(resultSels) = 0 THEN acc
  ELSE mergeResults(flip(acc, Key(cs).pe), Reverse(resultSels), 1, cs, other, sheet, sc, decl)

\* the rules inserted for the k-th selector of the current rule remember k
forCurSel(before, after, k) ==
  [after EXCEPT !.inserted =
     [n \in 1..Len(@) |-> IF n > Len(before.inserted) THEN [@[n] EXCEPT !.cs = k] ELSE @[n]]]

RECURSIVE eachCurSel(_, _, _, _, _, _, _, _)
eachCurSel(acc, curSel, k, result, other, sheet, sc, decl) ==
  IF k > Len(curSel) \/ acc.err # "" THEN acc
  ELSE eachCurSel(
         forCurSel(acc,
                   eachResult(acc, resultSelsFor(acc, result, Key(curSel[k]).pe),
                              curSel[k], other, sheet, sc, decl),
                   k),
         curSel, k + 1, result, other, sheet, sc, decl)

\* resolveConflictWith: [foundConflict, inserted, err]; inserted lists the new
\* rules in the order of their insertAfter calls
resolveConflictWith(other, curSel, sheet, sc, decl) ==
  eachCurSel([foundConflict |-> "noconflict", resolvedSelectors |-> {},
              inserted |-> <<>>, err |-> "", reversed |-> {}],
             curSel, 1, QueryKeySelector(sheet, other.name), other, sheet, sc, decl)

\* a walk that also goes on after a level with the same values
continueOnSame(foundConflict) == foundConflict \in {"noconflict", "samevalues"}

\* whether the walk up the base chain goes on after a level
continueWalk(foundConflict) == foundConflict = "noconflict"

\* one turn of the while loop of resolve, given what resolveConflictWith returned
crawlLevel(acc, other, r, bases) ==
  [foundConflict |-> r.foundConflict,
   levels |-> Append(acc.levels, [obj |-> other, found |-> r.foundConflict]),
   inserted |-> acc.inserted \o r.inserted,
   err |-> r.err,
   other |-> IF r.err = "" /\ continueWalk(r.foundConflict) THEN base(bases, other) ELSE other]

\* the while loop of resolve: acc is [foundConflict, levels, inserted, err, other]
RECURSIVE crawl(_, _, _, _, _)
crawl(acc, curSel, input, sc, decl) ==
  IF acc.other = Undefined \/ ~continueWalk(acc.foundConflict) \/ acc.err # "" THEN acc
  ELSE crawl(
         crawlLevel(acc, acc.other,
                    resolveConflictWith(acc.other, curSel, input.sheet[acc.other.blk], sc, decl),
                    input.base),
         curSel, input, sc, decl)

outcome(e, sc, other, c) ==
  [err |-> e, isOverride |-> sc.isOverride, otherDecls |-> sc.otherDecls,
   other |-> other, levels |-> c.levels, inserted |-> c.inserted,
   foundConflict |-> c.foundConflict]

NoCrawl(other) ==
  [foundConflict |-> "noconflict", levels |-> <<>>, inserted |-> <<>>, err |-> "",
   other |-> other]

\* a callback that throws for every explicit resolve without a conflict level
afterCrawlStrict(resolveInherited, sc, other, c) ==
  IF c.err # "" THEN outcome(c.err, sc, other, c)
  ELSE IF ~resolveInherited /\ c.foundConflict # "conflict"
    THEN outcome("noconflicts", sc, other, c)
  ELSE outcome("", sc, other, c)

\* what the callback throws after the walk up the chain
afterCrawl(resolveInherited, sc, other, c) ==
  IF c.err # "" THEN outcome(c.err, sc, other, c)
  ELSE IF ~resolveInherited /\ c.foundConflict = "noconflict"
    THEN outcome("noconflicts", sc, other, c)
  ELSE outcome("", sc, other, c)

\* the callback from the lookup of the reference on
resolveReference(rule, decl, input, sc, other) ==
  IF other = Undefined THEN outcome("cannotfind", sc, Undefined, NoCrawl(Undefined))
  ELSE IF equal("B", other.blk) THEN outcome("ownblock", sc, other, NoCrawl(other))
  ELSE IF ~decl.value.inh /\ isAncestor(input.base, other.blk, "B")
    THEN outcome("ancestor", sc, other, NoCrawl(other))
  ELSE afterCrawl(decl.value.inh, sc, other,
                  crawl(NoCrawl(other), rule.sels, input, sc, decl))

\* a callback that looks the reference up before it asks for a concrete value
resolveLookupFirst(rule, decl, input, sc) ==
  IF sc.thrown THEN outcome("mixed", sc, Undefined, NoCrawl(Undefined))
  ELSE IF lookup(decl.value.ref) = Undefined
    THEN outcome("cannotfind", sc, Undefined, NoCrawl(Undefined))
  ELSE IF sc.foundOtherValue = 0 THEN outcome("noconcrete", sc, Undefined, NoCrawl(Undefined))
  ELSE resolveReference(rule, decl, input, sc, lookup(decl.value.ref))

\* the callback once the rule has been scanned
resolveScanned(rule, decl, input, sc) ==
  IF sc.thrown THEN outcome("mixed", sc, Undefined, NoCrawl(Undefined))
  ELSE IF sc.foundOtherValue = 0 THEN outcome("noconcrete", sc, Undefined, NoCrawl(Undefined))
  ELSE resolveReference(rule, decl, input, sc, lookup(decl.value.ref))

\* the callback of root.walkDecls for a declaration that matches RESOLVE_RE:
\* what it throws ("" if nothing) and what it inserts after the rule
resolveDecl(rule, decl, input) ==
  resolveScanned(rule, decl, input, scanRule(rule.decls, decl))

(***************************************************************************)
(* Inputs of compile                                                       *)
(***************************************************************************)
SelFoo       == <<Seg(<<Cls("foo")>>, "", "")>>
SelBar       == <<Seg(<<Cls("bar")>>, "", "")>>
SelRoot      == <<Seg(<<Cls("root")>>, "", "")>>
SelFooBefore == <<Seg(<<Cls("foo")>>, "", "before")>>
SelScope     == <<Seg(<<Cls(":scope")>>, "", "")>>
SelCtx(comb, n) == <<Seg(<<Cls("x")>>, comb, ""), Seg(<<Cls(n)>>, "", "")>>
SelDeep(n)   == <<Seg(<<Cls("x")>>, " ", ""), Seg(<<Cls("y")>>, ">", ""), Seg(<<Cls(n)>>, "", "")>>

Red   == Decl("color", Val("red"))
Blue  == Decl("color", Val("blue"))
Width == Decl("width", Val("1px"))

SeqsUpTo(S, n) == UNION {[1..k -> S] : k \in 1..n}

Bases(bA, aG, oP) ==
  [b \in Blocks |-> IF b = "B" /\ bA THEN "A"
                    ELSE IF b = "A" /\ aG THEN "G"
                    ELSE IF b = "O" /\ oP THEN "P"
                    ELSE None]

Sheets(a, g, o, p) ==
  [b \in Blocks |-> IF b = "A" THEN a ELSE IF b = "G" THEN g
                    ELSE IF b = "O" THEN o ELSE IF b = "P" THEN p ELSE <<>>]

FooSheet(decls) == <<Rule(<<SelFoo>>, decls)>>

Scenario(r, bases, sheets, interop) ==
  [root |-> r, base |-> bases, sheet |-> sheets, interop |-> interop]

\* one rule for .foo whose declarations of color range over values and resolve
\* calls in every order; the target O.foo and its base P.foo hold no value, the
\* same value or another value
ShapeAlphabet ==
  {Red, Blue,
   Decl("color", Res(FALSE, <<"o", "foo">>)),
   Decl("color", Res(TRUE, <<"o", "foo">>)),
   Decl("color", Res(FALSE, <<"o", "zip">>))}

TargetDecls == {<<Width>>, <<Red>>, <<Blue>>}

ShapeScenarios ==
  {Scenario(<<Rule(<<SelFoo>>, ds)>>, Bases(FALSE, FALSE, t[1]),
            Sheets(<<>>, <<>>, FooSheet(t[2]), FooSheet(t[3])), FALSE) :
     <<ds, t>> \in SeqsUpTo(ShapeAlphabet, MaxDecls) \X
       ({<<FALSE, o, <<Width>>>> : o \in TargetDecls}
          \cup {<<TRUE, o, q>> : <<o, q>> \in TargetDecls \X TargetDecls})}

\* a value and one resolve call, before or after it, for every kind of
\* reference and every depth of B's base chain
RefAlphabet ==
  {Decl("color", Res(inh, <<b, "foo">>)) :
     <<inh, b>> \in BOOLEAN \X {"", "dup", "a", "g", "o", "q"}}

RefScenarios ==
  {Scenario(<<Rule(<<SelFoo>>, ds)>>, Bases(c[1], c[2], FALSE),
            Sheets(FooSheet(<<Blue>>), FooSheet(<<Blue>>), FooSheet(<<Blue>>), <<>>), io) :
     <<ds, c, io>> \in (UNION {{<<Red, d>>, <<d, Red>>} : d \in RefAlphabet})
        \X {<<FALSE, FALSE>>, <<TRUE, FALSE>>, <<TRUE, TRUE>>, <<FALSE, TRUE>>}
        \X BOOLEAN}

\* B extends A: rules of B with several key selectors, contexts and
\* pseudo-elements against base stylesheets of several shapes
InheritSels ==
  {<<SelFoo>>, <<SelFoo, SelBar>>, <<SelFoo, SelCtx(" ", "foo")>>,
   <<SelFoo, SelFooBefore>>, <<SelDeep("foo")>>, <<SelCtx(">", "foo")>>}

InheritDecls ==
  {<<Red>>, <<Red, Width>>, <<Width>>, <<Red, Decl("color", Res(FALSE, <<"o", "foo">>))>>}

InheritTail ==
  {<<>>, <<Rule(<<SelFoo>>, <<Width>>)>>, <<Rule(<<SelBar>>, <<Blue>>)>>}

BaseSheets ==
  {<<Rule(<<SelFoo>>, <<Blue>>), Rule(<<SelBar>>, <<Blue, Width>>)>>,
   <<Rule(<<SelDeep("foo")>>, <<Blue>>)>>,
   <<Rule(<<SelFoo, SelFooBefore>>, <<Red, Width>>)>>,
   <<Rule(<<SelCtx(">", "foo")>>, <<Blue>>), Rule(<<SelFoo>>, <<Width>>)>>}

InheritScenarios ==
  {Scenario(<<Rule(x[1], x[2])>> \o x[3], Bases(TRUE, x[5], FALSE),
            Sheets(x[4], FooSheet(<<Red>>), FooSheet(<<Blue>>), <<>>), FALSE) :
     x \in InheritSels \X InheritDecls \X InheritTail \X BaseSheets \X BOOLEAN}

\* a rule with one or two key selectors for .foo resolving against O, whose
\* stylesheet (and that of its base P) holds several selectors for .foo
OrderSels ==
  {<<SelFoo>>, <<SelFoo, SelCtx(" ", "foo")>>, <<SelCtx("+", "foo"), SelFoo>>}

OrderDecls ==
  {<<Red, Decl("color", Res(FALSE, <<"o", "foo">>))>>,
   <<Decl("color", Res(FALSE, <<"o", "foo">>)), Red>>}

OrderSheets ==
  {<<Rule(<<SelFoo>>, <<Blue>>), Rule(<<SelCtx(">", "foo")>>, <<Blue>>)>>,
   <<Rule(<<SelFoo, SelCtx(">", "foo")>>, <<Blue>>)>>,
   <<Rule(<<SelFoo>>, <<Blue>>)>>}

OrderScenarios ==
  {Scenario(<<Rule(x[1], x[2])>>, Bases(FALSE, FALSE, x[4]),
            Sheets(<<>>, <<>>, x[3], x[3]), FALSE) :
     x \in OrderSels \X OrderDecls \X OrderSheets \X BOOLEAN}

\* block-only syntax ahead of an ordinary rule
Preludes ==
  {<<AtRule("block-reference", "a")>>,
   <<AtRule("block-debug", "comment")>>,
   <<AtRule("block-debug", "stderr"), AtRule("block-reference", "o")>>,
   <<Rule(<<SelRoot>>, <<Decl("extends", Val("a"))>>)>>,
   <<Rule(<<SelScope>>, <<Decl("extends", Val("a")), Red>>),
     AtRule("block-reference", "a")>>,
   <<Rule(<<SelRoot>>, <<Decl("block-name", Val("b")), Red>>),
     AtRule("block-debug", "comment")>>}

PreludeScenarios ==
  {Scenario(x[1] \o <<Rule(<<SelFoo>>, x[2])>>, Bases(x[3], FALSE, FALSE),
            Sheets(FooSheet(<<Blue>>), <<>>, FooSheet(<<Blue>>), <<>>), x[4]) :
     x \in Preludes
        \X {<<Red>>, <<Red, Decl("color", Res(FALSE, <<"o", "foo">>))>>,
            <<Decl("color", Res(FALSE, <<"o", "foo">>))>>}
        \X BOOLEAN \X BOOLEAN}

(***************************************************************************)
(* postcss containers: each() keeps an index per running iteration and     *)
(* insertAfter / removeChild move it                                       *)
(***************************************************************************)
\* Container.insertAfter: an iteration index behind the anchor moves on
insertAdjust(index, exist, n) == IF exist < index THEN index + n ELSE index

\* removeChild without the correction of running iterations
removeAdjustNone(index, child) == index

\* Container.removeChild: an iteration index at or behind the child moves back
removeAdjust(index, child) == IF index >= child THEN index - 1 ELSE index

RemoveAt(seq, k) == [n \in 1..(Len(seq) - 1) |-> IF n < k THEN seq[n] ELSE seq[n + 1]]

\* parent.insertAfter(rule, newRule), once per element of nodes, in order
InsertAfter(seq, k, nodes) ==
  SubSeq(seq, 1, k) \o Reverse(nodes) \o SubSeq(seq, k + 1, Len(seq))

\* the next child root.walkDecls hands to its callback, from position w on:
\* nodes without declarations and exhausted rules are passed over
RECURSIVE position(_, _)
position(r, w) ==
  IF w.i > Len(r) THEN w
  ELSE IF r[w.i].type = "rule" /\ w.j <= Len(r[w.i].decls) THEN w
  ELSE position(r, [i |-> w.i + 1, j |-> 1])

(***************************************************************************)
(* BlockCompiler.compile                                                   *)
(***************************************************************************)
BLOCK_ONLY == {"extends", "implements", "block-name"}

\* root.walkRules(/\.root/): a rule one of whose selectors names .root
isRootRule(node) ==
  /\ node.type = "rule"
  /\ \E si \in 1..Len(node.sels) : \E k \in 1..Len(node.sels[si]) :
       \E n \in 1..Len(node.sels[si][k].nodes) : node.sels[si][k].nodes[n] = <<"", "root">>

processDebugStatements(r) ==
  LET kept == SelectSeq(r, LAMBDA n : ~(n.type = "atrule" /\ n.name = "block-debug"
                                         /\ n.text # "comment"))
  IN [k \in 1..Len(kept) |->
        IF kept[k].type = "atrule" /\ kept[k].name = "block-debug"
          THEN Comment("debug") ELSE kept[k]]

stripBlockSyntax(r) ==
  LET noRefs == SelectSeq(r, LAMBDA n : ~(n.type = "atrule" /\ n.name = "block-reference"))
      cleaned == [k \in 1..Len(noRefs) |->
                    IF isRootRule(noRefs[k])
                      THEN [noRefs[k] EXCEPT !.decls =
                              SelectSeq(@, LAMBDA d : d.prop \notin BLOCK_ONLY)]
                      ELSE noRefs[k]]
  IN SelectSeq(cleaned, LAMBDA n : ~(isRootRule(n) /\ Len(n.decls) = 0))

rewriteRules(r) ==
  [k \in 1..Len(r) |->
     IF r[k].type = "rule"
       THEN [r[k] EXCEPT !.sels = [si \in 1..Len(@) |-> rewriteSelector("B", @[si])]]
       ELSE r[k]]

exportsRule ==
  Rule(<< <<Seg(<< <<"", ":export">> >>, "", "")>> >>,
       <<Decl("root", Val("B")), Decl("foo", Val("B__foo")), Decl("bar", Val("B__bar"))>>)

NoLast ==
  [at |-> 0, idx |-> 0, decl |-> Decl("", Val("")), before |-> <<>>, sels |-> <<>>,
   err |-> "", isOverride |-> FALSE, otherDecls |-> <<>>, other |-> Undefined,
   levels |-> <<>>, inserted |-> <<>>, foundConflict |-> "noconflict", removed |-> FALSE]

ProcessDebugStatements ==
  /\ pc = "debug"
  /\ root' = processDebugStatements(root)
  /\ passes' = Append(passes, "debug")
  /\ pc' = "strip"
  /\ UNCHANGED <<in, walk, err, ret, last>>
  /\ UNCHANGED notCompile

StripBlockSyntax ==
  /\ pc = "strip"
  /\ root' = stripBlockSyntax(root)
  /\ passes' = Append(passes, "strip")
  /\ pc' = "inherit"
  /\ UNCHANGED <<in, walk, err, ret, last>>
  /\ UNCHANGED notCompile

ResolveInheritance ==
  /\ pc = "inherit"
  /\ root' = resolveInheritance(root, in)
  /\ passes' = Append(passes, "resolveInheritance")
  /\ pc' = "rewrite"
  /\ UNCHANGED <<in, walk, err, ret, last>>
  /\ UNCHANGED notCompile

RewriteSelectors ==
  /\ pc = "rewrite"
  /\ root' = rewriteRules(root)
  /\ passes' = Append(passes, "rewrite")
  /\ pc' = "resolve"
  /\ walk' = [i |-> 1, j |-> 1]
  /\ UNCHANGED <<in, err, ret, last>>
  /\ UNCHANGED notCompile

started(p) == IF passes # <<>> /\ passes[Len(passes)] = p THEN passes ELSE Append(passes, p)

\* resolve: the callback returns at once for a value that is no resolve call
ResolveSkip ==
  /\ pc = "resolve"
  /\ LET w == position(root, walk)
     IN /\ w.i <= Len(root)
        /\ ~RESOLVE_RE(root[w.i].decls[w.j].value)
        /\ walk' = [w EXCEPT !.j = @ + 1]
  /\ passes' = started("resolve")
  /\ UNCHANGED <<in, root, pc, err, ret, last>>
  /\ UNCHANGED notCompile

\* the effect of the callback on the tree and on the walk
nodesOf(inserted) == [n \in 1..Len(inserted) |-> inserted[n].node]

visited(w, rule, r) ==
  [at |-> w.i, idx |-> w.j, decl |-> rule.decls[w.j], before |-> rule.decls, sels |-> rule.sels,
   err |-> r.err, isOverride |-> r.isOverride, otherDecls |-> r.otherDecls,
   other |-> r.other, levels |-> r.levels, inserted |-> r.inserted,
   foundConflict |-> r.foundConflict, removed |-> r.err = ""]

Visit(w, rule, r) ==
  /\ last' = visited(w, rule, r)
  /\ IF r.err # ""
       THEN /\ root' = InsertAfter(root, w.i, nodesOf(r.inserted))
            /\ pc' = "thrown"
            /\ err' = r.err
            /\ walk' = w
       ELSE /\ root' = [InsertAfter(root, w.i, nodesOf(r.inserted))
                          EXCEPT ![w.i].decls = RemoveAt(@, w.j)]
            /\ walk' = [i |-> insertAdjust(w.i, w.i, Len(r.inserted)),
                        j |-> removeAdjust(w.j, w.j) + 1]
            /\ UNCHANGED <<pc, err>>

VisitAt(w) ==
  /\ w.i <= Len(root)
  /\ RESOLVE_RE(root[w.i].decls[w.j].value)
  /\ Visit(w, root[w.i], resolveDecl(root[w.i], root[w.i].decls[w.j], in))

\* resolve: the callback on a resolve() or resolve-inherited() declaration
ResolveDecl ==
  /\ pc = "resolve"
  /\ VisitAt(position(root, walk))
  /\ passes' = started("resolve")
  /\ UNCHANGED <<in, ret>>
  /\ UNCHANGED notCompile

\* resolve: the walk has passed the last node
ResolveEnd ==
  /\ pc = "resolve"
  /\ position(root, walk).i > Len(root)
  /\ passes' = started("resolve")
  /\ pc' = "export"
  /\ walk' = position(root, walk)
  /\ UNCHANGED <<in, root, err, ret, last>>
  /\ UNCHANGED notCompile

\* the injection run whatever the interoperableCSS option says
InjectExportsAlways ==
  /\ pc = "export"
  /\ root' = <<exportsRule>> \o root
  /\ passes' = Append(passes, "injectExports")
  /\ pc' = "return"
  /\ UNCHANGED <<in, walk, err, ret, last>>
  /\ UNCHANGED notCompile

InjectExports ==
  /\ pc = "export"
  /\ in.interop
  /\ root' = <<exportsRule>> \o root
  /\ passes' = Append(passes, "injectExports")
  /\ pc' = "return"
  /\ UNCHANGED <<in, walk, err, ret, last>>
  /\ UNCHANGED notCompile

Return ==
  /\ \/ pc = "return"
     \/ pc = "export" /\ ~in.interop
  /\ ret' = "root"
  /\ pc' = "done"
  /\ UNCHANGED <<in, root, passes, walk, err, last>>
  /\ UNCHANGED notCompile

Next ==
  \/ ProcessDebugStatements
  \/ StripBlockSyntax
  \/ ResolveInheritance
  \/ RewriteSelectors
  \/ ResolveSkip
  \/ ResolveDecl
  \/ ResolveEnd
  \/ InjectExports
  \/ Return

Compile(S) ==
  \E sc \in S :
    /\ in = [base |-> sc.base, sheet |-> sc.sheet, src |-> sc.root, interop |-> sc.interop]
    /\ root = sc.root

Init ==
  /\ \/ Compile(ShapeScenarios)
     \/ Compile(RefScenarios)
     \/ Compile(InheritScenarios)
     \/ Compile(PreludeScenarios)
     \/ Compile(OrderScenarios)
  /\ pc = "debug"
  /\ passes = <<>>
  /\ walk = [i |-> 0, j |-> 0]
  /\ err = ""
  /\ ret = None
  /\ last = NoLast
  /\ merge = Idle /\ fold = Idle /\ factory = Idle /\ block = Idle
  /\ ModelIdle

Spec == Init /\ [][Next]_vars

(***************************************************************************)
(* Properties                                                              *)
(***************************************************************************)
Range(f) == {f[k] : k \in DOMAIN f}

IsPrefix(a, b) == Len(a) <= Len(b) /\ \A k \in 1..Len(a) : a[k] = b[k]

\* the declarations of a tree that hold a resolve() or resolve-inherited() call
ResolveCalls(r) ==
  UNION {{<<k, d>> : d \in {n \in 1..Len(r[k].decls) : RESOLVE_RE(r[k].decls[n].value)}} :
           k \in 1..Len(r)}

ResolveReturned == pc \in {"export", "return", "done"}

\* C1: once resolve has returned without throwing, no declaration of the tree,
\* the rules resolve inserted included, holds a resolve() or resolve-inherited()
\* call.
C1_NoResolveLeft == ResolveReturned => ResolveCalls(root) = {}

\* resolve returned after it removed the last of several resolve calls and
\* inserted a rule for it
C1_Witness ==
  /\ ResolveReturned
  /\ last.removed
  /\ Len(last.inserted) > 0
  /\ Cardinality(ResolveCalls(in.src)) >= 2

PassOrder ==
  <<"debug", "strip", "resolveInheritance", "rewrite", "resolve">>
    \o (IF in.interop THEN <<"injectExports">> ELSE <<>>)

\* C2: the passes of compile run in one order (debug, strip, resolveInheritance,
\* selector rewrite, resolve, and the :export injection only when
\* interoperableCSS is set); compile returns the tree only after all of them, and
\* once a pass has thrown no later pass has run and no tree is returned.
C2_PassOrder ==
  /\ IsPrefix(passes, PassOrder)
  /\ (pc = "done") = (ret = "root")
  /\ pc = "done" => passes = PassOrder /\ err = ""
  /\ (err # "") = (pc = "thrown")
  /\ pc = "thrown" =>
       /\ ret = None
       /\ passes # <<>>
       /\ passes[Len(passes)] \in {"resolveInheritance", "rewrite", "resolve"}

\* resolve threw: five passes have run, the injection has not, no tree is returned
C2_Witness ==
  /\ pc = "thrown"
  /\ in.interop
  /\ passes = <<"debug", "strip", "resolveInheritance", "rewrite", "resolve">>

\* the latest visit of a resolve call, and where values of its property stand
Visited == last.at # 0

IsValueOf(d, prop) == d.prop = prop /\ ~RESOLVE_RE(d.value)

ConcreteBefore ==
  \E k \in 1..(last.idx - 1) : IsValueOf(last.before[k], last.decl.prop)

ConcreteAfter ==
  \E k \in (last.idx + 1)..Len(last.before) : IsValueOf(last.before[k], last.decl.prop)

Values(decls) == [k \in 1..Len(decls) |-> decls[k].value]

ValuesOf(decls, prop) == Values(SelectSeq(decls, LAMBDA d : IsValueOf(d, prop)))

\* the visit went through and put a rule after the current one for a conflict
InsertedForConflict ==
  /\ Visited
  /\ pc \in {"resolve", "export"}
  /\ last.err = ""
  /\ last.foundConflict = "conflict"
  /\ last.inserted # <<>>

LastInserted == last.inserted[Len(last.inserted)]

\* C3: the rule resolve inserts directly after the current rule carries the
\* target rule's values of the property when a value of the property precedes
\* the resolve() in the current rule (override), and the current rule's values
\* when values only follow the resolve() (underride).
C3_OverrideUnderride ==
  InsertedForConflict =>
    /\ root[last.at + 1] = LastInserted.node
    /\ ConcreteBefore =>
         Values(root[last.at + 1].decls) =
           ValuesOf(in.sheet[LastInserted.blk][LastInserted.rule].decls, last.decl.prop)
    /\ ~ConcreteBefore /\ ConcreteAfter =>
         Values(root[last.at + 1].decls) = ValuesOf(last.before, last.decl.prop)

\* the tree as resolveInheritance found it, and a rule without what it prepended
BeforeInheritance == stripBlockSyntax(processDebugStatements(in.src))

Authored(decls) == SelectSeq(decls, LAMBDA d : d.inj = <<>>)

InjectedAt(rule) == {d \in 1..Len(rule.decls) : rule.decls[d].inj # <<>>}

\* the key selector names an object of B that has a base, and both declare
\* the property in the pseudo-element bucket
SelOverridesBase(sel, pe, prop) ==
  /\ keyObject(sel) # None
  /\ Key(sel).pe = pe
  /\ in.base["B"] # None
  /\ prop \in rulesetProps(in.src, keyObject(sel), pe)
  /\ prop \in rulesetProps(in.sheet[in.base["B"]], keyObject(sel), pe)

OverridesBase(rule, pe, prop) ==
  \E si \in 1..Len(rule.sels) : SelOverridesBase(rule.sels[si], pe, prop)

\* C4: resolveInheritance prepends to a rule at most one resolve-inherited
\* declaration per (pseudo-element, property), however many of the rule's
\* selectors name overriding objects; it prepends one only for a property the
\* rule declares and on which a key-selector object conflicts with its base;
\* it changes nothing else, and nothing at all for a block without a base.
C4_InheritedOncePerProperty ==
  pc = "rewrite" =>
    /\ Len(root) = Len(BeforeInheritance)
    /\ \A k \in 1..Len(root) :
         /\ [root[k] EXCEPT !.decls = Authored(@)] = BeforeInheritance[k]
         /\ \A d \in InjectedAt(root[k]) :
              /\ root[k].decls[d].value.t = "r" /\ root[k].decls[d].value.inh
              /\ \A e \in 1..Len(root[k].decls) : root[k].decls[e].inj = <<>> => d < e
              /\ \A e \in InjectedAt(root[k]) :
                   (/\ root[k].decls[e].inj = root[k].decls[d].inj
                    /\ root[k].decls[e].prop = root[k].decls[d].prop) => e = d
              /\ \E e \in 1..Len(root[k].decls) :
                   root[k].decls[e].inj = <<>> /\ root[k].decls[e].prop = root[k].decls[d].prop
              /\ OverridesBase(root[k], root[k].decls[d].inj[1], root[k].decls[d].prop)
    /\ in.base["B"] = None => root = BeforeInheritance

\* a rule whose two selectors name two overriding objects got one declaration
C4_Witness ==
  /\ pc = "rewrite"
  /\ \E k \in 1..Len(root) :
       /\ Len(root[k].sels) = 2
       /\ keyObject(root[k].sels[1]) # keyObject(root[k].sels[2])
       /\ SelOverridesBase(root[k].sels[1], "", "color")
       /\ SelOverridesBase(root[k].sels[2], "", "color")
       /\ Cardinality(InjectedAt(root[k])) = 1

\* the latest visit got as far as the walk up the target's base chain
Walked == Visited /\ last.levels # <<>>

LastLevel == last.levels[Len(last.levels)]

MergeErrors == {"multicombinator", "mergecombinators"}

\* the walk starts at the target and takes the base of the level before
FollowsBases ==
  /\ last.levels[1].obj = lookup(last.decl.value.ref)
  /\ \A k \in 1..(Len(last.levels) - 1) :
       last.levels[k + 1].obj = base(in.base, last.levels[k].obj)

\* C5 as stated: the walk examines the target, then base after base; it moves
\* on after every level classified noconflict or samevalues, and stops only at
\* a level classified conflict or at the end of the base chain.
C5_WalkPastSameValues ==
  (Walked /\ last.err \notin MergeErrors) =>
    /\ FollowsBases
    /\ \A k \in 1..(Len(last.levels) - 1) :
         last.levels[k].found \in {"noconflict", "samevalues"}
    /\ \/ LastLevel.found = "conflict"
       \/ base(in.base, LastLevel.obj) = Undefined

\* C5: the walk examines the target, then base after base; it moves on to the
\* next base only after a level classified noconflict, and a level classified
\* samevalues or conflict, or the end of the base chain, stops it.
C5_WalkStopsAtFirstValue ==
  (Walked /\ last.err \notin MergeErrors) =>
    /\ FollowsBases
    /\ \A k \in 1..(Len(last.levels) - 1) : last.levels[k].found = "noconflict"
    /\ \/ LastLevel.found \in {"samevalues", "conflict"}
       \/ base(in.base, LastLevel.obj) = Undefined

\* the walk stopped at a target with the same values although it has a base
C5_Witness ==
  /\ Walked
  /\ Len(last.levels) = 1
  /\ LastLevel.found = "samevalues"
  /\ base(in.base, LastLevel.obj) # Undefined

\* the blocks B extends, directly or through its bases
RECURSIVE BaseChain(_)
BaseChain(b) == IF in.base[b] = None THEN {} ELSE {in.base[b]} \cup BaseChain(in.base[b])

Target == lookup(last.decl.value.ref)

InvalidBlockSyntax == {"mixed", "noconcrete", "ownblock", "ancestor", "noconflicts"}

\* the scan of the rule found a value of the property and no mixed order
ScanPassed == last.err \notin {"mixed", "noconcrete"}

\* C6: resolve throws InvalidBlockSyntax for every resolve() or
\* resolve-inherited() whose reference names an object of a block with the
\* identifier of the compiled block, and for every explicit resolve() whose
\* reference names an object of a block on the compiled block's base chain, at
\* any depth.
C6_OwnBlockAndAncestors ==
  (Visited /\ Target # Undefined) =>
    /\ identifier(Target.blk) = identifier("B") =>
         /\ last.err \in InvalidBlockSyntax
         /\ ScanPassed => last.err = "ownblock"
    /\ (~last.decl.value.inh /\ Target.blk \in BaseChain("B")) =>
         /\ last.err \in InvalidBlockSyntax
         /\ ScanPassed => last.err = "ancestor"

\* an explicit resolve against the base of the base of B threw
C6_Witness ==
  /\ Visited
  /\ last.err = "ancestor"
  /\ Target.blk = "G"
  /\ in.base["B"] = "A"
  /\ in.base["A"] = "G"

\* C7: a resolve-inherited() declaration that resolveInheritance injected
\* against the direct base never makes resolve throw, whatever the number of
\* combinators of the current rule's selectors and of the base's matching rules.
C7_InheritedNeverThrows ==
  (Visited /\ last.decl.inj # <<>>) => last.err = ""

\* the rules of a tree that hold values of a property on both sides of a resolve
\* call for it
MixedRules(r) ==
  {k \in 1..Len(r) :
     \E d \in 1..Len(r[k].decls) :
       /\ RESOLVE_RE(r[k].decls[d].value)
       /\ \E a \in 1..(d - 1) : IsValueOf(r[k].decls[a], r[k].decls[d].prop)
       /\ \E b \in (d + 1)..Len(r[k].decls) : IsValueOf(r[k].decls[b], r[k].decls[d].prop)}

\* C8: resolve throws 'must happen either before or after all other values'
\* for a resolve call whose rule holds concrete values of its property both
\* before and after it, and never returns for a tree with such a rule.
C8_MixedOrderThrows ==
  /\ (Visited /\ ConcreteBefore /\ ConcreteAfter) => last.err = "mixed"
  /\ ResolveReturned => MixedRules(in.src) = {}

C8_Witness ==
  /\ Visited
  /\ ConcreteBefore
  /\ ConcreteAfter
  /\ last.err = "mixed"
  /\ pc = "thrown"

\* C9: resolve throws 'Cannot resolve <prop> without a concrete value' for every
\* resolve() or resolve-inherited() whose rule holds no non-resolve declaration
\* of the property, whether or not the reference can be looked up.
C9_NoConcreteValue ==
  Visited =>
    (last.err = "noconcrete") =
      (\A k \in 1..Len(last.before) : ~IsValueOf(last.before[k], last.decl.prop))

\* the error for a reference that names nothing is the same one
C9_Witness ==
  /\ Visited
  /\ last.err = "noconcrete"
  /\ Target = Undefined
  /\ pc = "thrown"

\* the target and its bases, and what resolveConflictWith finds at each of them
RECURSIVE ChainFrom(_)
ChainFrom(o) == IF o = Undefined THEN <<>> ELSE <<o>> \o ChainFrom(base(in.base, o))

Classified(o) ==
  resolveConflictWith(o, last.sels, in.sheet[o.blk], scanRule(last.before, last.decl),
                      last.decl).foundConflict

LevelsClassified == {Classified(o) : o \in Range(ChainFrom(Target))}

Combinators == SIBLING_COMBINATORS \cup HIERARCHICAL_COMBINATORS

Bare(n) == <<Seg(<<Cls(n)>>, "", "")>>

OneCombinator(ctx, comb, n) == <<Seg(<<Cls(ctx)>>, comb, ""), Seg(<<Cls(n)>>, "", "")>>

\* selectors with no, one and two combinators
MergeSelectors ==
  {Bare(n) : n \in {"foo", "bar"}}
    \cup {OneCombinator(x[1], x[2], x[3]) : x \in {"x", "y"} \X Combinators \X {"foo", "bar"}}
    \cup {SelDeep("foo")}

\* the compiler does not run
CompileIdle ==
  /\ in = Idle /\ root = <<>> /\ pc = "idle" /\ passes = <<>>
  /\ walk = [i |-> 0, j |-> 0] /\ err = "" /\ ret = None /\ last = NoLast

merged(m, r) ==
  [m EXCEPT !.pc = IF r.err = "" THEN "returned" ELSE "thrown", !.sels = r.sels, !.err = r.err]

MergeKeySelectors ==
  /\ merge.pc = "call"
  /\ merge' = merged(merge, mergeKeySelectors(merge.s1, merge.s2))
  /\ UNCHANGED <<compileVars, fold, factory, block, modelVars>>

MergeInit ==
  /\ CompileIdle
  /\ fold = Idle /\ factory = Idle /\ block = Idle
  /\ ModelIdle
  /\ \E s1 \in MergeSelectors, s2 \in MergeSelectors :
       merge = [pc |-> "call", s1 |-> s1, s2 |-> s2, sels |-> <<>>, err |-> ""]

MergeNext == MergeKeySelectors

MergeSpec == MergeInit /\ [][MergeNext]_vars

\* the parts of a selector with at most one combinator
HasContext(s) == Len(s) = 2

Context(s) == s[1].nodes

Combinator(s) == s[1].comb

\* the key selector that matches both keys
MergedKey == Seg(Key(merge.s1).nodes \o Key(merge.s2).nodes, "", "")

Under(nodes, comb) == Seg(nodes, comb, "")

MergedContexts == Context(merge.s1) \o Context(merge.s2)

\* what the combinator table gives for merge.s1 and merge.s2, both with one
\* combinator c1 and c2; the same-axis pairs of a contiguous and a
\* non-contiguous combinator are not in it, the table gives their number only
Nested(c1, c2) ==
  IF c1 = c2 /\ c1 \in {">", "+"}
    THEN << <<Under(MergedContexts, c1), MergedKey>> >>
  ELSE IF c1 \in {"+", "~"} /\ c2 \in {" ", ">"}
    THEN << <<Under(Context(merge.s2), c2), Under(Context(merge.s1), c1), MergedKey>> >>
  ELSE IF c1 \in {" ", ">"} /\ c2 \in {"+", "~"}
    THEN << <<Under(Context(merge.s1), c1), Under(Context(merge.s2), c2), MergedKey>> >>
  ELSE << <<Under(MergedContexts, c1), MergedKey>>,
          <<Under(Context(merge.s1), c1), Under(Context(merge.s2), c1), MergedKey>>,
          <<Under(Context(merge.s2), c1), Under(Context(merge.s1), c1), MergedKey>> >>

SameAxisMixed(c1, c2) == {c1, c2} \in {{" ", ">"}, {"~", "+"}}

\* C11: for two selectors with one combinator each mergeKeySelectors returns
\* one selector with merged contexts for >,> and +,+; one nested selector,
\* hierarchical context outermost and sibling context next to the merged key,
\* for a sibling with a hierarchical combinator; three selectors (merged
\* contexts, context1 then context2, context2 then context1) for two
\* descendant or two general-sibling combinators; two selectors for a
\* non-contiguous with a contiguous combinator of the same axis; and with at
\* most one context, the merged key under that context or the bare merged key.
C11_CombinatorTable ==
  (merge.pc \in {"returned", "thrown"} /\ Len(merge.s1) <= 2 /\ Len(merge.s2) <= 2) =>
    /\ merge.pc = "returned"
    /\ (HasContext(merge.s1) /\ HasContext(merge.s2)) =>
         IF SameAxisMixed(Combinator(merge.s1), Combinator(merge.s2))
           THEN /\ Len(merge.sels) = 2
                /\ merge.sels[1] # merge.sels[2]
                /\ \A k \in 1..2 : Key(merge.sels[k]) = MergedKey
           ELSE merge.sels = Nested(Combinator(merge.s1), Combinator(merge.s2))
    /\ (HasContext(merge.s1) /\ ~HasContext(merge.s2)) =>
         merge.sels = << <<Under(Context(merge.s1), Combinator(merge.s1)), MergedKey>> >>
    /\ (~HasContext(merge.s1) /\ HasContext(merge.s2)) =>
         merge.sels = << <<Under(Context(merge.s2), Combinator(merge.s2)), MergedKey>> >>
    /\ (~HasContext(merge.s1) /\ ~HasContext(merge.s2)) => merge.sels = << <<MergedKey>> >>

\* .x .foo merged with .y .bar gave the three selectors
C11_Witness ==
  /\ merge.pc = "returned"
  /\ merge.s1 = OneCombinator("x", " ", "foo")
  /\ merge.s2 = OneCombinator("y", " ", "bar")
  /\ Len(merge.sels) = 3

(***************************************************************************)
(* updateConflict on its own: the classification one resolveConflictWith   *)
(* call accumulates, foundConflict = updateConflict(foundConflict, t2)     *)
(***************************************************************************)
\* the call starts from noconflict; t2s are the second arguments so far
FoldInit ==
  /\ CompileIdle
  /\ merge = Idle /\ factory = Idle /\ block = Idle
  /\ ModelIdle
  /\ fold = [found |-> "noconflict", prev |-> "noconflict", t2s |-> <<>>]

UpdateConflict ==
  /\ Len(fold.t2s) < MaxUpdates
  /\ \E t2 \in ConflictType :
       fold' = [found |-> updateConflict(fold.found, t2), prev |-> fold.found,
                t2s |-> Append(fold.t2s, t2)]
  /\ UNCHANGED <<compileVars, merge, factory, block, modelVars>>

FoldNext == UpdateConflict

FoldSpec == FoldInit /\ [][FoldNext]_vars

\* the order noconflict < samevalues < conflict
Rank(t) == CASE t = "noconflict" -> 0 [] t = "samevalues" -> 1 [] t = "conflict" -> 2

Greater(t1, t2) == IF Rank(t1) >= Rank(t2) THEN t1 ELSE t2

\* C12: updateConflict(t1, t2) is the greater of t1 and t2 in the order
\* noconflict < samevalues < conflict for all nine pairs; it is commutative,
\* associative and idempotent, and the classification accumulated inside one
\* resolveConflictWith call never decreases.
C12_UpdateConflictIsMax ==
  /\ fold.t2s # <<>> =>
       /\ fold.found = Greater(fold.prev, fold.t2s[Len(fold.t2s)])
       /\ Rank(fold.found) >= Rank(fold.prev)
  /\ \A a \in ConflictType, b \in ConflictType :
       /\ updateConflict(a, b) = Greater(a, b)
       /\ updateConflict(a, b) = updateConflict(b, a)
       /\ updateConflict(a, a) = a
       /\ \A c \in ConflictType :
            updateConflict(updateConflict(a, b), c) = updateConflict(a, updateConflict(b, c))

\* samevalues was raised to conflict by a later selector
C12_Witness ==
  /\ Len(fold.t2s) >= 2
  /\ fold.prev = "samevalues"
  /\ fold.t2s[Len(fold.t2s)] = "conflict"
  /\ fold.found = "conflict"

(***************************************************************************)
(* The output of compile                                                   *)
(***************************************************************************)
\* a rule one of whose selectors names the root of the block as n
Names(node, n) ==
  /\ node.type = "rule"
  /\ \E si \in 1..Len(node.sels) : \E k \in 1..Len(node.sels[si]) :
       \E x \in 1..Len(node.sels[si][k].nodes) : node.sels[si][k].nodes[x][2] = n

BlockAtRules(r) ==
  {k \in 1..Len(r) : r[k].type = "atrule" /\ r[k].name \in {"block-reference", "block-debug"}}

BlockOnlyDecls(node) == {d \in 1..Len(node.decls) : node.decls[d].prop \in BLOCK_ONLY}

\* no block syntax is left in the root rules named n
Clean(r, n) ==
  \A k \in 1..Len(r) :
    Names(r[k], n) => BlockOnlyDecls(r[k]) = {} /\ r[k].decls # <<>>

\* C13: after a successful compile the tree holds no @block-reference and no
\* @block-debug at-rule, no extends, implements or block-name declaration in
\* any .root or :scope rule, and no root rule that this removal left empty.
C13_OnlyStandardCss ==
  pc = "done" =>
    /\ BlockAtRules(root) = {}
    /\ Clean(root, "root")
    /\ Clean(root, ":scope")

\* the same for the rules that name .root only
C13_RootRulesClean ==
  pc = "done" => BlockAtRules(root) = {} /\ Clean(root, "root")

(***************************************************************************)
(* BlockFactory                                                            *)
(*   A Block instance is named by the number of the load that parsed it.   *)
(*   A promise of _getBlockPromiseAsync is named by the number of its      *)
(*   load; 0 stands for a missing map entry. A block name is a tuple: the  *)
(*   given name followed by the numbers appended to it ("x-2" is           *)
(*   <<"x", 2>>), <<>> stands for null.                                    *)
(***************************************************************************)
\* the identifiers getBlock is asked for
Ids == {"p.css"}

\* file.defaultName
defaultName(id) == <<"x">>

\* file.type === "ImportedCompiledCssFile", as the importer gave it
isCompiledCss(load) == load.compiled

Null == <<>>

\* the keys every object literal inherits: this.blockNames = {}
ObjectPrototype == {<<"constructor">>, <<"toString">>, <<"valueOf">>}

\* this.blockNames[name] is truthy: an entry of its own that holds an
\* identifier other than the empty string, or an inherited member
registered(blockNames, name) ==
  name \in ObjectPrototype \/ \E e \in blockNames : e[1] = name /\ e[2] # ""

\* this.blockNames[name] = identifier
assigned(blockNames, name, id) == {e \in blockNames : e[1] # name} \cup {<<name, id>>}

\* the while loop of getUniqueBlockName
RECURSIVE firstFree(_, _, _)
firstFree(blockNames, name, i) ==
  IF registered(blockNames, Append(name, i)) THEN firstFree(blockNames, name, i + 1) ELSE i

\* getUniqueBlockName: the name it returns and the names registered after it
getUniqueBlockName(blockNames, name, id, doNotOverride) ==
  IF ~registered(blockNames, name)
    THEN [name |-> name, blockNames |-> assigned(blockNames, name, id)]
  ELSE IF doNotOverride THEN [name |-> Null, blockNames |-> blockNames]
  ELSE [name |-> Append(name, firstFree(blockNames, name, 2)),
        blockNames |-> assigned(blockNames, Append(name, firstFree(blockNames, name, 2)), id)]

\* the constructor
NewFactory(faultTolerant) ==
  [blocks |-> [id \in Ids |-> 0], promises |-> [id \in Ids |-> 0], paths |-> {},
   blockNames |-> {}, guids |-> {}, faultTolerant |-> faultTolerant,
   loads |-> <<>>, calls |-> <<>>, resets |-> 0, nameCalls |-> <<>>]

\* reset()
reset(f) ==
  [f EXCEPT !.blocks = [id \in Ids |-> 0], !.paths = {}, !.promises = [id \in Ids |-> 0],
            !.blockNames = {}, !.guids = {}, !.resets = @ + 1]

\* _getBlockPromise: a load starts and its promise is stored
getBlockPromise(f, id) ==
  [f EXCEPT !.loads = Append(@, [id |-> id, resets |-> f.resets, pc |-> "import",
                                 block |-> 0, valid |-> TRUE, compiled |-> FALSE,
                                 name |-> Null]),
            !.promises[id] = Len(f.loads) + 1]

Call(f, id, on, retry) ==
  [id |-> id, resets |-> f.resets, on |-> on, retry |-> retry,
   st |-> "pending", block |-> 0, at |-> 0]

Resolved(call, b, at) == [call EXCEPT !.st = "resolved", !.block = b, !.at = at]

\* the catch handler of getBlock runs: the call follows a new load
retried(f, c) ==
  [getBlockPromise(f, f.calls[c].id) EXCEPT
     !.calls[c].on = Len(f.loads) + 1, !.calls[c].retry = FALSE]

\* getBlock, up to the promise it returns. A handler attached to a promise
\* that has settled runs before anything else does.
getBlock(f, id) ==
  IF f.blocks[id] # 0
    THEN [f EXCEPT !.calls = Append(@, Resolved(Call(f, id, 0, FALSE),
                                                f.blocks[id], f.resets))]
  ELSE IF f.promises[id] = 0
    THEN [getBlockPromise(f, id) EXCEPT
            !.calls = Append(@, Call(f, id, Len(f.loads) + 1, FALSE))]
  ELSE IF f.loads[f.promises[id]].pc = "failed"
    THEN retried([f EXCEPT !.calls = Append(@, Call(f, id, f.promises[id], TRUE))],
                 Len(f.calls) + 1)
  ELSE IF f.loads[f.promises[id]].pc = "done"
    THEN [f EXCEPT !.calls = Append(@, Resolved(Call(f, id, f.promises[id], TRUE),
                                                f.loads[f.promises[id]].block, f.resets))]
  ELSE [f EXCEPT !.calls = Append(@, Call(f, id, f.promises[id], TRUE))]

\* a load returns the block the factory already holds
cached(f, l) ==
  [f EXCEPT !.loads[l].pc = "done", !.loads[l].block = f.blocks[f.loads[l].id]]

\* _importAndPreprocessBlock records the path of the file it is given
recorded(f, l, compiled) ==
  IF compiled THEN f ELSE [f EXCEPT !.paths = @ \cup {f.loads[l].id}]

\* _getBlockPromiseAsync after importer.import: _importAndPreprocessBlock up to
\* the preprocess queue, _reconstituteCompiledCssSource up to the parser
imported(f, l, compiled) ==
  IF f.blocks[f.loads[l].id] # 0 THEN cached(recorded(f, l, compiled), l)
  ELSE [recorded(f, l, compiled) EXCEPT !.loads[l].pc = "parse",
                                        !.loads[l].compiled = compiled]

\* _importAndPreprocessBlock after postcss.parse skips the parser when the
\* factory holds the block; a compiled file has no such check. Then the parser
\* makes the Block.
parsed(f, l, valid) ==
  IF ~isCompiledCss(f.loads[l]) /\ f.blocks[f.loads[l].id] # 0 THEN cached(f, l)
  ELSE [f EXCEPT !.loads[l].pc = "finalize", !.loads[l].block = l, !.loads[l].valid = valid]

\* the end of _getBlockPromiseAsync for a new Block, given the unique name
stored(f, l, id, u) ==
  IF ~f.faultTolerant /\ (~f.loads[l].valid \/ u.name = Null \/ id \in f.guids)
    THEN [f EXCEPT !.blockNames = u.blockNames, !.guids = @ \cup {id},
                   !.loads[l].pc = "failed",
                   !.loads[l].name = IF u.name = Null THEN defaultName(id) ELSE u.name]
    ELSE [f EXCEPT !.blockNames = u.blockNames, !.guids = @ \cup {id},
                   !.loads[l].pc = "done",
                   !.loads[l].name = IF u.name = Null THEN defaultName(id) ELSE u.name,
                   !.blocks[id] = l]

\* a finalization that stores its Block without the last check
finalizedUnchecked(f, l) ==
  stored(f, l, f.loads[l].id,
         getUniqueBlockName(f.blockNames, defaultName(f.loads[l].id), f.loads[l].id,
                            isCompiledCss(f.loads[l])))

\* the end of _getBlockPromiseAsync: last check, unique name, guid, errors
finalized(f, l) ==
  IF f.blocks[f.loads[l].id] # 0 THEN cached(f, l)
  ELSE stored(f, l, f.loads[l].id,
              getUniqueBlockName(f.blockNames, defaultName(f.loads[l].id), f.loads[l].id,
                                 isCompiledCss(f.loads[l])))

\* the promise a call waits on has settled
settled(f, c) ==
  IF f.loads[f.calls[c].on].pc = "done"
    THEN [f EXCEPT !.calls[c] = Resolved(@, f.loads[f.calls[c].on].block, f.resets)]
  ELSE IF f.calls[c].retry THEN retried(f, c)
  ELSE [f EXCEPT !.calls[c].st = "rejected", !.calls[c].at = f.resets]

\* once load l has settled, the handlers of the calls that wait on its promise
\* run, in the order in which they were attached
RECURSIVE react(_, _, _)
react(f, l, c) ==
  IF c > Len(f.calls) \/ f.loads[l].pc \notin {"done", "failed"} THEN f
  ELSE IF f.calls[c].st = "pending" /\ f.calls[c].on = l
    THEN react(settled(f, c), l, c + 1)
  ELSE react(f, l, c + 1)

\* a step of load l, the handlers it sets off included, while the loads it
\* starts are within the bound
Step(f, l) ==
  /\ Len(react(f, l, 1).loads) <= MaxLoads
  /\ factory' = react(f, l, 1)

NotFactory ==
  /\ CompileIdle
  /\ merge = Idle /\ fold = Idle /\ block = Idle
  /\ ModelIdle

FactoryInit ==
  /\ NotFactory
  /\ \E faultTolerant \in BOOLEAN : factory = NewFactory(faultTolerant)

FactoryIdle == UNCHANGED <<compileVars, merge, fold, block, modelVars>>

\* a caller may ask for a block while the factory can still start a load
mayAsk(f, id) ==
  /\ Len(f.calls) < MaxCalls
  /\ f.blocks[id] # 0 \/ Len(f.loads) < MaxLoads
       \/ (f.promises[id] # 0 /\ f.loads[f.promises[id]].pc # "failed")

GetBlock ==
  /\ \E id \in Ids : mayAsk(factory, id) /\ factory' = getBlock(factory, id)
  /\ FactoryIdle

\* importer.identifier(null, filePath) and the paths map name the same file
pathIdentifier(f, filePath) == filePath

\* getBlockFromPath: this.paths[filePath] || importer.identifier(null, filePath)
GetBlockFromPath ==
  /\ \E filePath \in Ids :
       /\ mayAsk(factory, pathIdentifier(factory, filePath))
       /\ factory' = getBlock(factory, pathIdentifier(factory, filePath))
  /\ FactoryIdle

\* getBlockRelative: getBlock(identifier).catch(err => { throw err })
GetBlockRelative ==
  /\ \E id \in Ids : mayAsk(factory, id) /\ factory' = getBlock(factory, id)
  /\ FactoryIdle

\* importer.import resolves
Imported ==
  /\ \E l \in 1..Len(factory.loads), compiled \in BOOLEAN :
       /\ factory.loads[l].pc = "import"
       /\ Step(imported(factory, l, compiled), l)
  /\ FactoryIdle

\* importer.import rejects
ImportFails ==
  /\ \E l \in 1..Len(factory.loads) :
       /\ factory.loads[l].pc = "import"
       /\ Step([factory EXCEPT !.loads[l].pc = "failed"], l)
  /\ FactoryIdle

\* the preprocess queue and the parser are through; the Block may hold errors
Parsed ==
  /\ \E l \in 1..Len(factory.loads), valid \in BOOLEAN :
       /\ factory.loads[l].pc = "parse"
       /\ Step(parsed(factory, l, valid), l)
  /\ FactoryIdle

Finalized ==
  /\ \E l \in 1..Len(factory.loads) :
       /\ factory.loads[l].pc = "finalize"
       /\ Step(finalized(factory, l), l)
  /\ FactoryIdle

Reset ==
  /\ factory.resets < MaxResets
  /\ factory' = reset(factory)
  /\ FactoryIdle

FactoryNext ==
  \/ GetBlock
  \/ GetBlockFromPath
  \/ GetBlockRelative
  \/ Imported
  \/ ImportFails
  \/ Parsed
  \/ Finalized
  \/ Reset

FactorySpec == FactoryInit /\ [][FactoryNext]_vars

\* ---- getUniqueBlockName called on its own ----

\* "x-2" is <<"x", 2>>
BlockNames == {<<"x">>, <<"x", 2>>, <<"constructor">>}

\* the identifiers a caller passes: that of a file, or the empty string
NameIdentifiers == Ids \cup {""}

\* the factory after a call of getUniqueBlockName that returned u.name
named(f, name, id, doNotOverride, u) ==
  [f EXCEPT !.blockNames = u.blockNames,
            !.nameCalls = Append(@, [name |-> name, id |-> id, resets |-> f.resets,
                                     doNotOverride |-> doNotOverride,
                                     before |-> f.blockNames, returned |-> u.name,
                                     after |-> u.blockNames])]

GetUniqueBlockName ==
  /\ Len(factory.nameCalls) < MaxNameCalls
  /\ \E name \in BlockNames, id \in NameIdentifiers, doNotOverride \in BOOLEAN :
       factory' = named(factory, name, id, doNotOverride,
                        getUniqueBlockName(factory.blockNames, name, id, doNotOverride))
  /\ FactoryIdle

NamesNext == GetUniqueBlockName \/ Reset

NamesSpec == FactoryInit /\ [][NamesNext]_vars

\* ---- Block, its classes, states and block references ----

ClassNames == {"a", "constructor"}

StateNames == {"s"}

RefNames == {"asdf"}

NameValues == {"test", "renamed"}

\* what this._classes[name] yields for a member the object literal inherits
Inherited == -1

\* new Block("test", ...) and new Block("other", ...): objects[1] and objects[2]
NewBlocks ==
  [pc |-> "run",
   objects |-> <<[type |-> "block", block |-> 1, name |-> "test"],
                 [type |-> "block", block |-> 2, name |-> "other"]>>,
   hasHadNameReset |-> [b \in 1..2 |-> FALSE],
   classes |-> [b \in 1..2 |-> [n \in ClassNames |-> 0]],
   states |-> [b \in 1..2 |-> [n \in StateNames |-> 0]],
   blockReferences |-> [b \in 1..2 |-> [n \in RefNames |-> 0]],
   first |-> [b \in 1..2 |-> [n \in ClassNames |-> 0]],
   last |-> [op |-> "new"]]

\* a name setter that assigns every time
setNameUnguarded(b, blk, name) ==
  [b EXCEPT !.objects[blk].name = name, !.hasHadNameReset[blk] = TRUE,
            !.last = [op |-> "name", block |-> blk, name |-> name, threw |-> FALSE,
                      had |-> b.hasHadNameReset[blk], was |-> b.objects[blk].name]]

\* set name(name)
setName(b, blk, name) ==
  IF b.hasHadNameReset[blk]
    THEN [b EXCEPT !.last = [op |-> "name", block |-> blk, name |-> name, threw |-> TRUE,
                             had |-> TRUE, was |-> b.objects[blk].name]]
    ELSE [b EXCEPT !.objects[blk].name = name, !.hasHadNameReset[blk] = TRUE,
                   !.last = [op |-> "name", block |-> blk, name |-> name, threw |-> FALSE,
                             had |-> FALSE, was |-> b.objects[blk].name]]

\* getClass: this._classes[name]
getClass(b, blk, name) ==
  IF b.classes[blk][name] # 0 THEN b.classes[blk][name]
  ELSE IF <<name>> \in ObjectPrototype THEN Inherited
  ELSE 0

\* new BlockClass(name, this)
newClass(b, blk, name) ==
  [b EXCEPT !.objects = Append(@, [type |-> "class", block |-> blk, name |-> name])]

\* addClass: this._classes[blockClass.name] = blockClass
addClass(b, id) == [b EXCEPT !.classes[b.objects[id].block][b.objects[id].name] = id]

\* ensureClass: the Block after the call and the value returned
ensureClass(b, blk, name) ==
  IF getClass(b, blk, name) # 0
    THEN [b |-> b, returned |-> getClass(b, blk, name)]
    ELSE [b |-> addClass(newClass(b, blk, name), Len(b.objects) + 1),
          returned |-> Len(b.objects) + 1]

\* states.ensureState: get or create
ensureState(b, blk, name) ==
  IF b.states[blk][name] # 0 THEN b
  ELSE [b EXCEPT !.objects = Append(@, [type |-> "state", block |-> blk, name |-> name]),
                 !.states[blk][name] = Len(b.objects) + 1]

\* addBlockReference: this._blockReferences[localName] = other
addBlockReference(b, blk, localName, other) ==
  [b EXCEPT !.blockReferences[blk][localName] = other]

\* asSource, as the pieces of the string
asSource(o) ==
  IF o.type = "block" THEN <<".", "root">>
  ELSE IF o.type = "class" THEN <<".", o.name>>
  ELSE <<"[state|", o.name, "]">>

\* a reference read in the scope of the block itself
localLookup(b, blk, reference) ==
  IF reference = <<".", "root">> THEN blk
  ELSE IF Len(reference) = 2 /\ reference[1] = "." /\ reference[2] \in ClassNames
    THEN b.classes[blk][reference[2]]
  ELSE IF Len(reference) = 3 /\ reference[1] = "[state|" /\ reference[3] = "]"
          /\ reference[2] \in StateNames
    THEN b.states[blk][reference[2]]
  ELSE 0

\* BlockScope.lookup: the local scope first, then the block reference the
\* leading name stands for, with the rest of the reference
RECURSIVE scopeLookup(_, _, _)
scopeLookup(b, blk, reference) ==
  IF localLookup(b, blk, reference) # 0 THEN localLookup(b, blk, reference)
  ELSE IF reference # <<>> /\ reference[1] \in RefNames
          /\ b.blockReferences[blk][reference[1]] # 0
    THEN IF Len(reference) = 1 THEN b.blockReferences[blk][reference[1]]
         ELSE scopeLookup(b, b.blockReferences[blk][reference[1]], Tail(reference))
  ELSE 0

\* the references lookup is asked for
References ==
  LET local == {<<".", "a">>, <<".", "none">>, <<".", "root">>, <<"[state|", "s", "]">>}
  IN local \cup {<<"asdf">> \o r : r \in local \cup {<<>>}} \cup {<<"nope", ".", "a">>}

BlockInit ==
  /\ CompileIdle
  /\ merge = Idle /\ fold = Idle /\ factory = Idle
  /\ ModelIdle
  /\ block = NewBlocks

BlockIdle == UNCHANGED <<compileVars, merge, fold, factory, modelVars>>

mayCreate(b) == Len(b.objects) <= 2 + MaxObjects

SetName ==
  /\ \E name \in NameValues : block' = setName(block, 1, name)
  /\ BlockIdle

\* ensureClass, with the first value it returned for the name kept
ensured(b, blk, name, r) ==
  [r.b EXCEPT !.first[blk][name] = IF @ = 0 THEN r.returned ELSE @,
              !.last = [op |-> "ensureClass", block |-> blk, name |-> name,
                        returned |-> r.returned, held |-> b.classes[blk][name] # 0,
                        created |-> Len(r.b.objects) > Len(b.objects)]]

EnsureClass ==
  /\ \E blk \in 1..2, name \in ClassNames :
       /\ mayCreate(ensureClass(block, blk, name).b)
       /\ block' = ensured(block, blk, name, ensureClass(block, blk, name))
  /\ BlockIdle

\* addClass with a class made for it, or with a class made before
AddClass ==
  /\ \/ \E blk \in 1..2, name \in ClassNames :
          /\ mayCreate(newClass(block, blk, name))
          /\ block' = [addClass(newClass(block, blk, name), Len(block.objects) + 1)
                         EXCEPT !.last = [op |-> "addClass"]]
     \/ \E id \in 3..Len(block.objects) :
          /\ block.objects[id].type = "class"
          /\ block' = [addClass(block, id) EXCEPT !.last = [op |-> "addClass"]]
  /\ BlockIdle

GetClass ==
  /\ \E blk \in 1..2, name \in ClassNames :
       block' = [block EXCEPT !.last = [op |-> "getClass", block |-> blk, name |-> name,
                                        returned |-> getClass(block, blk, name)]]
  /\ BlockIdle

EnsureState ==
  /\ \E blk \in 1..2, name \in StateNames :
       /\ mayCreate(ensureState(block, blk, name))
       /\ block' = [ensureState(block, blk, name) EXCEPT !.last = [op |-> "ensureState"]]
  /\ BlockIdle

AddBlockReference ==
  /\ \E localName \in RefNames :
       block' = [addBlockReference(block, 1, localName, 2)
                   EXCEPT !.last = [op |-> "addBlockReference"]]
  /\ BlockIdle

\* lookup: return this._localScope.lookup(reference)
Lookup ==
  /\ \E reference \in References :
       block' = [block EXCEPT !.last = [op |-> "lookup", reference |-> reference,
                                        returned |-> scopeLookup(block, 1, reference)]]
  /\ BlockIdle

BlockNext ==
  \/ SetName
  \/ EnsureClass
  \/ AddClass
  \/ GetClass
  \/ EnsureState
  \/ AddBlockReference
  \/ Lookup

BlockSpec == BlockInit /\ [][BlockNext]_vars

\* ---- properties of the BlockFactory ----

CallIds == 1..Len(factory.calls)

LoadIds == 1..Len(factory.loads)

ResolvedCalls == {c \in CallIds : factory.calls[c].st = "resolved"}

\* the calls that followed a new load once the load they waited on had failed
RetriedCalls ==
  {c \in CallIds : \E l \in LoadIds : /\ factory.loads[l].pc = "failed"
                                       /\ factory.loads[l].id = factory.calls[c].id
                                       /\ l < factory.calls[c].on}

\* C14: the calls for one identifier that resolve between the same two calls
\* of reset() resolve to the same Block instance, whichever of getBlock,
\* getBlockFromPath and getBlockRelative made them, and however the calls and
\* the loads, failed and retried ones included, interleave.
C14_OneInstancePerIdentifier ==
  \A c \in ResolvedCalls, d \in ResolvedCalls :
    (factory.calls[c].id = factory.calls[d].id /\ factory.calls[c].at = factory.calls[d].at)
      => factory.calls[c].block = factory.calls[d].block

\* two calls resolved between the same resets, both after a retry, and the
\* load the second one followed gave up its own Block for the one stored
C14_Witness ==
  \E c \in ResolvedCalls, d \in ResolvedCalls :
    /\ c # d
    /\ factory.calls[c].id = factory.calls[d].id
    /\ factory.calls[c].at = factory.calls[d].at
    /\ c \in RetriedCalls
    /\ d \in RetriedCalls
    /\ factory.calls[d].on # factory.calls[d].block
    /\ factory.loads[factory.calls[d].on].pc = "done"

\* the loads that have started and have not settled
InFlight == {l \in LoadIds : factory.loads[l].pc \in {"import", "parse", "finalize"}}

\* C15: at any time at most one load of an identifier is in flight, also
\* when several getBlock calls wait on a load that fails.
C15_AtMostOneLoadInFlight ==
  \A l \in InFlight, m \in InFlight :
    factory.loads[l].id = factory.loads[m].id => l = m

\* the same, while reset() has not been called
C15_AtMostOneLoadBeforeReset ==
  factory.resets = 0 => C15_AtMostOneLoadInFlight

\* C16: a getBlock call made after reset() never returns a Block whose load
\* started before that reset, also when the load was in flight at the reset.
C16_FreshAfterReset ==
  \A c \in ResolvedCalls :
    factory.loads[factory.calls[c].block].resets >= factory.calls[c].resets

\* ---- properties of getUniqueBlockName ----

\* a call before this one, and since the last reset(), registered the name
Taken(call, name) == \E e \in call.before : e[1] = name

\* name-i for the smallest i >= 2 such that name-i is not taken
Suffixed(call) ==
  CHOOSE n \in {Append(call.name, i) : i \in 2..(MaxNameCalls + 2)} :
    /\ ~Taken(call, n)
    /\ \A j \in 2..(n[Len(n)] - 1) : Taken(call, Append(call.name, j))

\* what a call has to return and to register
Expected(call) ==
  IF ~call.doNotOverride
    THEN /\ call.returned = IF Taken(call, call.name) THEN Suffixed(call) ELSE call.name
         /\ call.after = call.before \cup {<<call.returned, call.id>>}
    ELSE Taken(call, call.name) => (call.returned = Null /\ call.after = call.before)

\* C17: with doNotOverride false getUniqueBlockName returns the name when it
\* is not registered and otherwise name-i for the smallest free i >= 2, and
\* registers what it returns (so "x", "x-2", "x-3" in a row on a fresh
\* factory); with doNotOverride true and the name registered it returns null
\* and registers nothing.
C17_UniqueBlockName ==
  \A k \in 1..Len(factory.nameCalls) : Expected(factory.nameCalls[k])

\* the same for the names that no object literal inherits
C17_UniqueOwnName ==
  \A k \in 1..Len(factory.nameCalls) :
    (/\ factory.nameCalls[k].name \notin ObjectPrototype
     /\ \A e \in factory.nameCalls[k].before \cup factory.nameCalls[k].after : e[2] # "")
      => Expected(factory.nameCalls[k])

\* three requests for "x" in a row returned "x", "x-2" and "x-3"
C17_Successive ==
  /\ Len(factory.nameCalls) = 3
  /\ \A k \in 1..3 : factory.nameCalls[k].name = <<"x">>
  /\ factory.nameCalls[1].returned = <<"x">>
  /\ factory.nameCalls[2].returned = <<"x", 2>>
  /\ factory.nameCalls[3].returned = <<"x", 3>>

\* ---- properties of Block ----

\* C18: the name of a Block can be assigned once after construction; every
\* later assignment throws and leaves the name as it was.
C18_NameSetOnce ==
  block.last.op = "name" =>
    IF block.last.had
      THEN block.last.threw /\ block.objects[block.last.block].name = block.last.was
      ELSE ~block.last.threw /\ block.objects[block.last.block].name = block.last.name

\* a second assignment, of another name than the one the Block has, threw
C18_Witness ==
  /\ block.last.op = "name"
  /\ block.last.had
  /\ block.last.threw
  /\ block.last.name # block.last.was
  /\ block.last.was = "renamed"

\* C19: whatever ensureClass, addClass and getClass calls were made on a
\* Block, ensureClass returns for a name the BlockClass instance it returned
\* for that name before, and it creates a class only when the Block holds no
\* class of that name.
C19_EnsureClassSameInstance ==
  block.last.op = "ensureClass" =>
    /\ block.last.returned = block.first[block.last.block][block.last.name]
    /\ block.last.created => ~block.last.held

\* the same for a Block on which addClass replaced no class, and for names
\* that no object literal inherits
C19_EnsureClassUnreplaced ==
  (/\ block.last.op = "ensureClass"
   /\ <<block.last.name>> \notin ObjectPrototype
   /\ \A id \in 3..Len(block.objects) :
        block.objects[id].type = "class"
          => block.classes[block.objects[id].block][block.objects[id].name] = id)
    => /\ block.last.returned = block.first[block.last.block][block.last.name]
       /\ block.last.created => ~block.last.held

\* the classes and states made for block blk
MadeFor(blk) ==
  {id \in 3..Len(block.objects) : block.objects[id].block = blk}

\* the classes and states block blk holds
HeldBy(blk) ==
  {id \in MadeFor(blk) :
     IF block.objects[id].type = "class"
       THEN block.classes[blk][block.objects[id].name] = id
       ELSE block.states[blk][block.objects[id].name] = id}

\* lookup finds each of these objects from its asSource, those of a
\* referenced block under the name of the reference
RoundTrip(own, referenced) ==
  /\ \A id \in own : scopeLookup(block, 1, asSource(block.objects[id])) = id
  /\ \A n \in RefNames :
       block.blockReferences[1][n] = 2 =>
         \A id \in referenced :
           scopeLookup(block, 1, <<n>> \o asSource(block.objects[id])) = id

\* C20: lookup inverts asSource: for every class or state X made in a block,
\* lookup(X.asSource()) is X itself, and for every class or state Y of a block
\* referenced under the name n, lookup(n followed by Y.asSource()) is Y itself;
\* a reference that matches nothing yields undefined.
C20_LookupInvertsAsSource ==
  /\ RoundTrip(MadeFor(1), MadeFor(2))
  /\ (block.last.op = "lookup" /\ block.last.reference[Len(block.last.reference)] = "none")
       => block.last.returned = 0

\* the same for the classes and states the blocks hold
C20_LookupInvertsHeld ==
  /\ RoundTrip(HeldBy(1), HeldBy(2))
  /\ (block.last.op = "lookup" /\ block.last.reference[Len(block.last.reference)] = "none")
       => block.last.returned = 0

\* lookup has returned a class of the referenced block, while both blocks
\* hold a class of that name
C20_HeldWitness ==
  /\ block.last.op = "lookup"
  /\ block.last.reference = <<"asdf", ".", "a">>
  /\ block.last.returned \in HeldBy(2)
  /\ block.classes[1]["a"] # 0

\* ---- the merge of two selectors with one combinator each ----

\* a selector with the order of the simple selectors of its compounds dropped
Unordered(sel) ==
  [k \in 1..Len(sel) |->
     [nodes |-> {sel[k].nodes[i] : i \in 1..Len(sel[k].nodes)},
      comb |-> sel[k].comb, pe |-> sel[k].pe]]

UnorderedSels(sels) == {Unordered(sels[k]) : k \in 1..Len(sels)}

\* C28: for every ordered pair of combinators out of descendant, >, + and ~
\* mergeKeySelectors on two selectors with one combinator each returns one to
\* three selectors and never throws 'Cannot merge selectors with
\* combinators'; with the arguments swapped it returns the same selectors, up
\* to the order of the simple selectors inside a compound.
C28_EveryPairMerges ==
  (merge.pc \in {"returned", "thrown"} /\ HasContext(merge.s1) /\ HasContext(merge.s2)) =>
    /\ merge.err # "mergecombinators"
    /\ merge.pc = "returned"
    /\ Len(merge.sels) \in 1..3
    /\ mergeKeySelectors(merge.s2, merge.s1).err = ""
    /\ UnorderedSels(mergeKeySelectors(merge.s2, merge.s1).sels) = UnorderedSels(merge.sels)

\* .x + .foo merged with .y ~ .bar gave two selectors, and the swapped call
\* gives them with the simple selectors of the compounds in another order
C28_Witness ==
  /\ merge.pc = "returned"
  /\ merge.s1 = OneCombinator("x", "+", "foo")
  /\ merge.s2 = OneCombinator("y", "~", "bar")
  /\ Len(merge.sels) = 2
  /\ mergeKeySelectors(merge.s2, merge.s1).sels # merge.sels

\* ---- the objects of one rule and their bases ----

\* the properties the rule declared before resolveInheritance
DeclaredIn(rule) == {rule.decls[d].prop : d \in 1..Len(rule.decls)}

\* the rule holds a resolve-inherited declaration of prop that names the base
\* of the object the key selector names
ResolvedAgainstBase(rule, sel, prop) ==
  \E d \in InjectedAt(rule) :
    /\ rule.decls[d].prop = prop
    /\ rule.decls[d].inj = <<Key(sel).pe>>
    /\ rule.decls[d].value.ref[2] = keyObject(sel)

C29_FirstObjectResolved ==
  pc = "rewrite" =>
    \A k \in 1..Len(BeforeInheritance) :
      \A si \in 1..Len(BeforeInheritance[k].sels), prop \in DeclaredIn(BeforeInheritance[k]) :
        (/\ SelOverridesBase(BeforeInheritance[k].sels[si],
                             Key(BeforeInheritance[k].sels[si]).pe, prop)
         /\ \A sj \in 1..(si - 1) :
              ~SelOverridesBase(BeforeInheritance[k].sels[sj],
                                Key(BeforeInheritance[k].sels[si]).pe, prop))
          => ResolvedAgainstBase(root[k], BeforeInheritance[k].sels[si], prop)

\* where the selector a rule was emitted for stands among the selectors of
\* the target's stylesheet that match the target, in source order
TargetOrder(e) ==
  LET q == QueryKeySelector(in.sheet[e.blk], keyObject(e.sel))
  IN CHOOSE p \in 1..Len(q) : q[p].sel = e.sel /\ q[p].rule = e.rule

\* where an emitted rule stands in the tree, counted from the current rule
PlaceAfterCurrent(n) == Len(last.inserted) + 1 - n

EmittedDirectlyAfter ==
  \A n \in 1..Len(last.inserted) :
    root[last.at + PlaceAfterCurrent(n)] = last.inserted[n].node

InSourceOrder(selectors) ==
  \A i, j \in 1..Len(last.inserted) :
    (/\ last.inserted[i].cs \in selectors
     /\ last.inserted[i].cs = last.inserted[j].cs
     /\ last.inserted[i].blk = last.inserted[j].blk
     /\ TargetOrder(last.inserted[i]) < TargetOrder(last.inserted[j]))
      => PlaceAfterCurrent(i) < PlaceAfterCurrent(j)

\* C25: the rules one resolve() declaration emits for one level of the
\* target's chain stand directly after the current rule, in the relative order
\* the target's matching selectors have in the target's stylesheet, for every
\* comma-separated selector of the current rule.
C25_EmittedInSourceOrder ==
  InsertedForConflict =>
    /\ EmittedDirectlyAfter
    /\ InSourceOrder(1..Len(last.sels))

\* the same for the first selector of the current rule alone
C25_FirstSelectorInSourceOrder ==
  InsertedForConflict =>
    /\ EmittedDirectlyAfter
    /\ InSourceOrder({1})

(***************************************************************************)
(* Style.resolveStyles: the memoized set of a style and its base chain.    *)
(* Sets are objects: style.heap holds every Set made, a cache and a        *)
(* returned value are references into it.                                  *)
(***************************************************************************)
Styles == 1..MaxStyles

NoStyle == 0

\* Inheritable.resolveInheritance: the styles reached by walking base,
\* the farthest first
RECURSIVE inheritedStyles(_, _)
inheritedStyles(bases, s) ==
  IF bases[s] = NoStyle THEN <<>>
  ELSE Append(inheritedStyles(bases, bases[s]), bases[s])

\* new Set(members): the heap with one more object, whose reference is its length
newSet(st, members) == [st EXCEPT !.heap = Append(@, members)]

\* the first call fills _resolvedStyles; impliedStyles() is undefined for
\* every style, so nothing is united into it
filled(st, s) ==
  IF st.cache[s] # NoStyle THEN st
  ELSE LET made == newSet(st, Range(inheritedStyles(st.base, s)) \cup {s})
       IN [made EXCEPT !.cache[s] = Len(made.heap)]

returnedSet(st, s, ref) ==
  [st EXCEPT !.calls = Append(@, [of |-> s, set |-> ref, members |-> st.heap[ref],
                                  base |-> st.base])]

\* resolveStyles handing out the cache itself
resolveStylesShared(st, s) ==
  LET f == filled(st, s)
  IN returnedSet(f, s, f.cache[s])

resolveStyles(st, s) ==
  LET f == filled(st, s)
      copy == newSet(f, f.heap[f.cache[s]])
  IN returnedSet(copy, s, Len(copy.heap))

\* the base chains a program can build: a style extends a style made before it
BaseChains == {b \in [Styles -> Styles \cup {NoStyle}] : \A s \in Styles : b[s] < s}

StyleInit ==
  /\ CompileIdle
  /\ merge = Idle /\ fold = Idle /\ factory = Idle /\ block = Idle
  /\ exports = Idle /\ deps = Idle /\ analysis = Idle
  /\ \E b \in BaseChains :
       style = [pc |-> "run", base |-> b, cache |-> [s \in Styles |-> NoStyle], heap |-> <<>>,
                calls |-> <<>>, changes |-> 0, rebased |-> 0]

StyleIdle == UNCHANGED <<compileVars, merge, fold, factory, block, exports, deps, analysis>>

ResolveStyles ==
  /\ Len(style.calls) < MaxStyleCalls
  /\ \E s \in Styles : style' = resolveStyles(style, s)
  /\ StyleIdle

\* a caller adds a style to a set it was handed, or deletes one from it
ChangeReturnedSet ==
  /\ style.changes < MaxSetChanges
  /\ \E k \in 1..Len(style.calls), x \in Styles :
       LET ref == style.calls[k].set
       IN style' = [style EXCEPT !.changes = @ + 1,
                                 !.heap[ref] = IF x \in @ THEN @ \ {x} ELSE @ \cup {x}]
  /\ StyleIdle

\* Inheritable.setBase on a style
SetBase ==
  /\ style.rebased < MaxSetBase
  /\ \E s \in Styles, b \in 0..(MaxStyles - 1) :
       /\ b < s
       /\ b # style.base[s]
       /\ style' = [style EXCEPT !.rebased = @ + 1, !.base[s] = b]
  /\ StyleIdle

StyleNext == ResolveStyles \/ ChangeReturnedSet \/ SetBase

StyleSpec == StyleInit /\ [][StyleNext]_vars

FirstCallOn(s) == CHOOSE i \in 1..Len(style.calls) :
  style.calls[i].of = s /\ \A j \in 1..(i - 1) : style.calls[j].of # s

DEFAULT_EXPORT == "default"

\* CLASS_NAME_IDENT.test
CLASS_NAME_IDENT(name) == name \notin {"1", ""}

RemoteNames == {"a", "default", "1"}
LocalNames  == {"x", "nope", "default"}

\* an at-rule: its export list as parseBlockNames gives it (remote name and
\* local name; none for an empty list) and whether it names a path
AtRuleExports ==
  {[list |-> <<>>, from |-> FALSE]}
    \cup {[list |-> <<[remote |-> r, local |-> l]>>, from |-> f] :
            <<r, l, f>> \in RemoteNames \X LocalNames \X BOOLEAN}

\* Block.getReferencedBlock of the source block: both blocks reference x alone
getReferencedBlock(localName) == localName = "x"

\* the checks the callback makes on one name, in their order; "" when it passes
exportError(remoteNames, remoteName, localName) ==
  IF remoteName \in remoteNames THEN "Can not have duplicate Block export of same name"
  ELSE IF ~CLASS_NAME_IDENT(localName) THEN "Illegal block name in export"
  ELSE IF ~CLASS_NAME_IDENT(remoteName) THEN "Illegal block name in import"
  ELSE IF localName = DEFAULT_EXPORT /\ remoteName = DEFAULT_EXPORT
    THEN "Unnecessary re-export of default Block"
  ELSE IF remoteName = DEFAULT_EXPORT THEN "Can not export as reserved word"
  ELSE IF ~getReferencedBlock(localName) THEN "Can not export Block"
  ELSE ""

\* Block.addBlockExport
addBlockExport(e, remoteName, k) ==
  [e EXCEPT !.bound = Append(@, [name |-> remoteName, rule |-> k])]

\* the callback of one at-rule: every name of its list until one throws
RECURSIVE exportNames(_, _, _)
exportNames(e, k, n) ==
  IF n > Len(e.rules[k].list) THEN e
  ELSE LET x == e.rules[k].list[n]
           m == exportError(e.remoteNames, x.remote, x.local)
       IN IF m # "" THEN [e EXCEPT !.rejected = Append(@, [rule |-> k, err |-> m])]
          ELSE exportNames(addBlockExport(e, x.remote, k), k, n + 1)

\* Promise.all(exportPromises): rejected with the first rejection, resolved
\* once every promise is
allSettled(e) ==
  IF e.pc # "pending" THEN e
  ELSE IF e.rejected # <<>> THEN [e EXCEPT !.pc = "rejected", !.err = e.rejected[1].err]
  ELSE IF e.waiting = {} THEN [e EXCEPT !.pc = "resolved"]
  ELSE e

\* walkAtRules: an at-rule with an empty list throws inside its async
\* callback before its promise is pushed; the others wait for their source block
walked(e) ==
  allSettled([e EXCEPT !.pc = "pending",
                       !.waiting = {k \in 1..Len(e.rules) : e.rules[k].list # <<>>}])

ExportsInit ==
  /\ CompileIdle
  /\ merge = Idle /\ fold = Idle /\ factory = Idle /\ block = Idle
  /\ style = Idle /\ deps = Idle /\ analysis = Idle
  /\ \E rules \in SeqsUpTo(AtRuleExports, MaxExportRules) :
       exports = [pc |-> "walk", rules |-> rules, waiting |-> {}, remoteNames |-> {},
                  bound |-> <<>>, rejected |-> <<>>, err |-> ""]

ExportsIdle == UNCHANGED <<compileVars, merge, fold, factory, block, style, deps, analysis>>

\* exportBlocks up to its return: the default export and the walk
ExportBlocks ==
  /\ exports.pc = "walk"
  /\ exports' = walked(addBlockExport(exports, DEFAULT_EXPORT, 0))
  /\ ExportsIdle

\* the source block of an at-rule is there: one without a path is the block
\* itself and its callbacks run in the order of the walk, one with a path
\* waits for the factory
SourceBlockResolved ==
  /\ exports.pc \in {"pending", "rejected"}
  /\ \E k \in exports.waiting :
       /\ \/ exports.rules[k].from
          \/ \A j \in exports.waiting : j < k => exports.rules[j].from
       /\ exports' = allSettled(exportNames([exports EXCEPT !.waiting = @ \ {k}], k, 1))
  /\ ExportsIdle

ExportsNext == ExportBlocks \/ SourceBlockResolved

ExportsSpec == ExportsInit /\ [][ExportsNext]_vars

\* the at-rule declares the name, and nothing but a second declaration of the
\* name can stop it
Declares(rule, name) ==
  \E n \in 1..Len(rule.list) :
    rule.list[n].remote = name /\ exportError({}, name, rule.list[n].local) = ""

DeclaredTwice(name) ==
  \E j, k \in 1..Len(exports.rules) :
    j # k /\ Declares(exports.rules[j], name) /\ Declares(exports.rules[k], name)

AllCallbacksRan == exports.pc \in {"resolved", "rejected"} /\ exports.waiting = {}

\* C22: exportBlocks rejects with 'Can not have duplicate Block export of same
\* name' when one export name is declared twice among the @export at-rules of
\* a block, and no export name is ever bound a second time.
C22_DuplicateExportRejected ==
  exports.pc # "idle" =>
    /\ \A j, k \in 1..Len(exports.bound) : j # k => exports.bound[j].name # exports.bound[k].name
    /\ (AllCallbacksRan /\ \E name \in RemoteNames : DeclaredTwice(name)) =>
         \E r \in 1..Len(exports.rejected) :
           exports.rejected[r].err = "Can not have duplicate Block export of same name"

\* no other check of the callback lets a name through that it should stop
C22_OtherChecksHold ==
  exports.pc # "idle" =>
    \A j \in 1..Len(exports.bound) :
      \/ exports.bound[j].rule = 0 /\ exports.bound[j].name = DEFAULT_EXPORT
      \/ /\ exports.bound[j].rule # 0
         /\ exports.bound[j].name # DEFAULT_EXPORT
         /\ CLASS_NAME_IDENT(exports.bound[j].name)

(***************************************************************************)
(* transitiveBlockDependencies of a Block and of a TemplateAnalysis: the   *)
(* recursion over the block references, one call or one return a step      *)
(***************************************************************************)
DepBlocks == 1..MaxDepBlocks

\* the analysis, which references blocks and is referenced by none
TheAnalysis == 0

\* eachBlockReference / referencedBlocks: the referenced blocks in key order
eachBlockReference(refs, b) == SelectSeq([k \in 1..MaxDepBlocks |-> k], LAMBDA k : k \in refs[b])

Frame(refs, b) == [of |-> b, todo |-> eachBlockReference(refs, b), deps |-> {}]

\* a call that gives the empty set for a block whose call is still running
calledOnce(d, b) ==
  IF \E k \in 1..Len(d.stack) : d.stack[k].of = b
    THEN [d EXCEPT !.stack = Append(@, [of |-> b, todo |-> <<>>, deps |-> {}])]
    ELSE [d EXCEPT !.stack = Append(@, Frame(d.refs, b))]

\* block.transitiveBlockDependencies(): a new frame, with nothing that
\* remembers the blocks already entered
called(d, b) == [d EXCEPT !.stack = Append(@, Frame(d.refs, b))]

\* the callback up to the recursive call: deps.add(block), then the call;
\* a call beyond the engine's stack throws a RangeError
entered(d) ==
  LET n == Len(d.stack)
      b == Head(d.stack[n].todo)
      added == [d EXCEPT !.stack[n].deps = @ \cup {b}, !.stack[n].todo = Tail(@)]
  IN IF n = MaxStack THEN [added EXCEPT !.pc = "thrown"]
     ELSE called(added, b)

\* return deps: the caller unites what it got into its own set
left(d) ==
  LET n == Len(d.stack)
      moreDeps == d.stack[n].deps
  IN IF n = 1 THEN [d EXCEPT !.pc = "returned", !.result = moreDeps, !.stack = <<>>]
     ELSE [d EXCEPT !.stack = [SubSeq(@, 1, n - 1) EXCEPT ![n - 1].deps = @ \cup moreDeps]]

DepsInit ==
  /\ CompileIdle
  /\ merge = Idle /\ fold = Idle /\ factory = Idle /\ block = Idle
  /\ style = Idle /\ exports = Idle /\ analysis = Idle
  /\ \E refs \in [DepBlocks \cup {TheAnalysis} -> SUBSET DepBlocks],
        start \in DepBlocks \cup {TheAnalysis} :
       deps = [pc |-> "running", refs |-> refs, start |-> start,
               stack |-> <<Frame(refs, start)>>, result |-> {}]

DepsIdle == UNCHANGED <<compileVars, merge, fold, factory, block, style, exports, analysis>>

DepsCall ==
  /\ deps.pc = "running"
  /\ deps.stack[Len(deps.stack)].todo # <<>>
  /\ deps' = entered(deps)
  /\ DepsIdle

DepsReturn ==
  /\ deps.pc = "running"
  /\ deps.stack[Len(deps.stack)].todo = <<>>
  /\ deps' = left(deps)
  /\ DepsIdle

DepsNext == DepsCall \/ DepsReturn

DepsSpec == DepsInit /\ [][DepsNext]_vars

\* the blocks reached from b through n reference edges or fewer, at least one
RECURSIVE Within(_, _, _)
Within(refs, b, n) ==
  IF n = 1 THEN refs[b]
  ELSE LET near == Within(refs, b, n - 1)
       IN near \cup UNION {refs[x] : x \in near}

Reachable(refs, b) == Within(refs, b, MaxDepBlocks)

CycleReachable(refs, b) == \E x \in Reachable(refs, b) : x \in Reachable(refs, x)

\* C23: transitiveBlockDependencies returns exactly the blocks reachable
\* through one or more block-reference edges when the reachable reference
\* graph has no cycle (and then it does return: no call runs out of stack),
\* and it never returns when a cycle is reachable.
C23_ReachableOrNoReturn ==
  deps.pc # "idle" =>
    /\ deps.pc = "returned" => deps.result = Reachable(deps.refs, deps.start)
    /\ CycleReachable(deps.refs, deps.start) => deps.pc # "returned"
    /\ ~CycleReachable(deps.refs, deps.start) =>
         /\ deps.pc # "thrown"
         /\ Len(deps.stack) <= MaxDepBlocks + 1

C23_Witness ==
  /\ deps.pc = "returned"
  /\ deps.start = TheAnalysis
  /\ deps.result # deps.refs[deps.start]
  /\ Cardinality(deps.result) >= 2

\* a call on a reference graph with a cycle ends in the RangeError
C23_CycleThrows ==
  /\ deps.pc = "thrown"
  /\ CycleReachable(deps.refs, deps.start)

(***************************************************************************)
(* TemplateAnalysis: the element under analysis, the elements recorded and *)
(* the queries on them                                                     *)
(***************************************************************************)
\* the styles a template uses: the root of a block, a class of that block and
\* a class of another block
AnalysisStyles == {"root", "cls", "other"}

NoElement == [id |-> 0, stylesFound |-> {}, correlations |-> {}]

\* new Element(id, locInfo): no style, one empty correlation
Element(id) == [id |-> id, stylesFound |-> {}, correlations |-> {{}}]

\* Element.addStyle: a static style joins every correlation, a dynamic one
\* adds the correlations that hold it
elementAddStyle(el, obj, isDynamic) ==
  [el EXCEPT !.stylesFound = @ \cup {obj},
             !.correlations = IF isDynamic THEN @ \cup {c \cup {obj} : c \in @}
                              ELSE {c \cup {obj} : c \in @}]

\* Element.addExclusiveStyles: one of the styles in each correlation, and the
\* correlations without any of them unless one is always present
elementAddExclusiveStyles(el, alwaysPresent, objs) ==
  [el EXCEPT !.stylesFound = @ \cup objs,
             !.correlations =
                LET with == {c \cup {o} : <<c, o>> \in @ \X objs}
                IN IF alwaysPresent /\ objs # {} THEN with ELSE @ \cup with]

\* rootClassValidator: a class of a block on the element of the block's root
rootClassValidator(correlations) ==
  IF \E c \in correlations : {"root", "cls"} \subseteq c
    THEN "Cannot put block classes on the block's root element"
    ELSE ""

\* TemplateValidator.validate: the message the error callback throws, "" if none
validate(el) == rootClassValidator(el.correlations)

\* a call: what the call before returned is gone
calledOn(a, op) ==
  [a EXCEPT !.calls = @ + 1,
            !.query = [pc |-> "none", styles |-> {}, item |-> 0, iterations |-> 0,
                       result |-> FALSE],
            !.last = [op |-> op, wasOpen |-> a.currentElement # NoElement,
                      styles |-> Cardinality(a.currentElement.stylesFound),
                      elements |-> a.elements, threw |-> "", returned |-> 0]]

threw(a, message) == [a EXCEPT !.last.threw = message]

ENDELEMENT_NOT_CALLED == "endElement wasn't called after a previous call to startElement"
STARTELEMENT_NOT_CALLED == "Can not call addStyle before a call to startElement"

startElement(a) ==
  IF a.currentElement # NoElement THEN threw(a, ENDELEMENT_NOT_CALLED)
  ELSE [a EXCEPT !.currentElement = Element(a.idGenerator + 1),
                 !.idGenerator = @ + 1,
                 !.last.returned = a.idGenerator + 1]

endElement(a) ==
  IF a.currentElement = NoElement THEN a
  ELSE IF validate(a.currentElement) # "" THEN threw(a, validate(a.currentElement))
  ELSE IF a.currentElement.stylesFound # {}
    THEN [a EXCEPT !.elements = Append(@, a.currentElement),
                   !.currentElement = NoElement,
                   !.last.returned = a.currentElement.id]
  ELSE [a EXCEPT !.currentElement = NoElement]

addStyle(a, obj, isDynamic) ==
  IF a.currentElement = NoElement THEN threw(a, STARTELEMENT_NOT_CALLED)
  ELSE [a EXCEPT !.stylesFound = @ \cup {obj},
                 !.dynamicStyles = IF isDynamic THEN @ \cup {obj} ELSE @,
                 !.currentElement = elementAddStyle(@, obj, isDynamic)]

addExclusiveStyles(a, alwaysPresent, objs) ==
  IF a.currentElement = NoElement THEN threw(a, STARTELEMENT_NOT_CALLED)
  ELSE [a EXCEPT !.stylesFound = @ \cup objs,
                 !.dynamicStyles = @ \cup objs,
                 !.currentElement = elementAddExclusiveStyles(@, alwaysPresent, objs)]

NoQuery == [pc |-> "none", styles |-> {}, item |-> 0, iterations |-> 0, result |-> FALSE]

\* let mapIter = this.elements.entries(); let item = mapIter.next():
\* item 0 stands for the entry that is done
areCorrelated(a, styles) ==
  [a EXCEPT !.query = [pc |-> "while", styles |-> styles,
                       item |-> IF a.elements = <<>> THEN 0 ELSE 1,
                       iterations |-> 0, result |-> FALSE]]

\* one test of the while condition and, when it holds, one run of the body:
\* the body returns true or falls through, and item stays what it was
whileItem(a) ==
  LET q == a.query
  IN IF q.item = 0 THEN [a EXCEPT !.query.pc = "returned", !.query.result = FALSE]
     ELSE IF \E c \in a.elements[q.item].correlations : q.styles \subseteq c
       THEN [a EXCEPT !.query.pc = "returned", !.query.result = TRUE,
                      !.query.iterations = @ + 1]
     ELSE [a EXCEPT !.query.iterations = @ + 1]

AnalysisInit ==
  /\ CompileIdle
  /\ merge = Idle /\ fold = Idle /\ factory = Idle /\ block = Idle
  /\ style = Idle /\ exports = Idle /\ deps = Idle
  /\ analysis = [pc |-> "run", idGenerator |-> 0, stylesFound |-> {}, dynamicStyles |-> {},
                 elements |-> <<>>, currentElement |-> NoElement, calls |-> 0,
                 last |-> [op |-> "new", wasOpen |-> FALSE, styles |-> 0, elements |-> <<>>,
                           threw |-> "", returned |-> 0],
                 query |-> NoQuery]

AnalysisIdle == UNCHANGED <<compileVars, merge, fold, factory, block, style, exports, deps>>

\* calls come one after the other: none while areCorrelated runs
mayCall == analysis.calls < MaxAnalysisCalls /\ analysis.query.pc # "while"

StartElement ==
  /\ mayCall
  /\ analysis' = startElement(calledOn(analysis, "startElement"))
  /\ AnalysisIdle

EndElement ==
  /\ mayCall
  /\ analysis' = endElement(calledOn(analysis, "endElement"))
  /\ AnalysisIdle

AddStyle ==
  /\ mayCall
  /\ \E obj \in AnalysisStyles, isDynamic \in BOOLEAN :
       analysis' = addStyle(calledOn(analysis, "addStyle"), obj, isDynamic)
  /\ AnalysisIdle

AddExclusiveStyles ==
  /\ mayCall
  /\ \E alwaysPresent \in BOOLEAN, objs \in SUBSET AnalysisStyles :
       /\ Cardinality(objs) <= 2
       /\ analysis' = addExclusiveStyles(calledOn(analysis, "addExclusiveStyles"),
                                         alwaysPresent, objs)
  /\ AnalysisIdle

AreCorrelated ==
  /\ mayCall
  /\ \E styles \in SUBSET AnalysisStyles :
       /\ Cardinality(styles) <= 2
       /\ analysis' = areCorrelated(calledOn(analysis, "areCorrelated"), styles)
  /\ AnalysisIdle

WhileItem ==
  /\ analysis.query.pc = "while"
  /\ analysis.query.iterations < MaxIterations
  /\ analysis' = whileItem(analysis)
  /\ AnalysisIdle

AnalysisNext ==
  \/ StartElement
  \/ EndElement
  \/ AddStyle
  \/ AddExclusiveStyles
  \/ AreCorrelated
  \/ WhileItem

AnalysisSpec == AnalysisInit /\ [][AnalysisNext]_vars

IsOpen == analysis.currentElement # NoElement

Recorded == Len(analysis.elements) = Len(analysis.last.elements) + 1

\* C24: startElement throws while an element is open, addStyle and
\* addExclusiveStyles throw while none is open, endElement closes the open
\* element, records it in elements only when it has at least one style, and
\* does nothing and returns undefined when no element is open.
C24_OneOpenElement ==
  analysis.pc # "idle" =>
    LET l == analysis.last
    IN /\ l.op = "startElement" =>
            /\ (l.threw # "") = l.wasOpen
            /\ IsOpen
       /\ l.op \in {"addStyle", "addExclusiveStyles"} =>
            /\ (l.threw # "") = ~l.wasOpen
            /\ IsOpen = l.wasOpen
       /\ l.op = "endElement" =>
            /\ ~IsOpen
            /\ l.wasOpen => (Recorded <=> l.styles >= 1)
            /\ ~l.wasOpen =>
                 l.returned = 0 /\ l.threw = "" /\ analysis.elements = l.elements

\* the same with endElement's part for the calls of endElement that return
C24_OneOpenElementUnlessInvalid ==
  analysis.pc # "idle" =>
    LET l == analysis.last
    IN /\ l.op = "startElement" =>
            /\ (l.threw # "") = l.wasOpen
            /\ IsOpen
       /\ l.op \in {"addStyle", "addExclusiveStyles"} =>
            /\ (l.threw # "") = ~l.wasOpen
            /\ IsOpen = l.wasOpen
       /\ (l.op = "endElement" /\ l.threw = "") =>
            /\ ~IsOpen
            /\ l.wasOpen => (Recorded <=> l.styles >= 1)
            /\ ~l.wasOpen => l.returned = 0 /\ analysis.elements = l.elements
       /\ (l.op = "endElement" /\ l.threw # "") =>
            IsOpen /\ analysis.elements = l.elements

Correlated(styles) ==
  \E k \in 1..Len(analysis.elements) :
    \E c \in analysis.elements[k].correlations : styles \subseteq c

\* C26: areCorrelated terminates for every analysis (its loop runs at most
\* once for each recorded element) and returns true exactly when some
\* recorded element has a correlation that contains every given style.
C26_AreCorrelatedTerminates ==
  analysis.pc # "idle" =>
    /\ analysis.query.iterations <= Len(analysis.elements)
    /\ analysis.query.pc = "returned" =>
         analysis.query.result = Correlated(analysis.query.styles)

\* what areCorrelated returns, when it returns, is right
C26_ReturnedIsRight ==
  analysis.pc # "idle" =>
    (analysis.query.pc = "returned" =>
       analysis.query.result = Correlated(analysis.query.styles))

\* ---- properties of the name registry between resets ----

DistinctNames(calls) ==
  \A j, k \in calls :
    (/\ j < k
     /\ factory.nameCalls[j].resets = factory.nameCalls[k].resets
     /\ factory.nameCalls[j].returned # Null
     /\ factory.nameCalls[k].returned # Null)
      => factory.nameCalls[j].returned # factory.nameCalls[k].returned

\* C27: between two resets of a BlockFactory the names getUniqueBlockName
\* returns, null aside, are pairwise distinct, whatever names and identifiers
\* are asked for (the same identifier twice and the empty identifier included).
C27_NamesDistinct == DistinctNames(1..Len(factory.nameCalls))

\* the same for the calls that pass an identifier other than the empty string
C27_NamesDistinctForIdentifiers ==
  DistinctNames({k \in 1..Len(factory.nameCalls) : factory.nameCalls[k].id # ""})

\* ---- properties of a load that fails ----

\* a step in which a load that stood at one of the positions fails
LoadFails(positions) ==
  \E l \in 1..Len(factory.loads) :
    /\ factory.loads[l].pc \in positions
    /\ factory'.loads[l].pc = "failed"

RegistriesKept ==
  /\ factory'.blocks = factory.blocks
  /\ factory'.blockNames = factory.blockNames
  /\ factory'.guids = factory.guids

\* C30: a block load that fails in a BlockFactory that is not fault tolerant
\* (import error, parse error, or a block error such as a duplicate GUID
\* surfaced by assertValid) leaves the blocks cache, the blockNames registry
\* and the guids registry as they were, so that a later load of the same
\* identifier gets the name it would have got without the failure.
C30_FailedLoadKeepsRegistries ==
  [][(~factory.faultTolerant /\ LoadFails({"import", "parse", "finalize"}))
       => RegistriesKept]_vars

\* the same for the loads whose import fails
C30_FailedImportKeepsRegistries ==
  [][(~factory.faultTolerant /\ LoadFails({"import"})) => RegistriesKept]_vars

====
